---- MODULE Spec2Model ----
(***************************************************************************)
(* Ownership-intelligence platform: the equity penetration engine          *)
(* (app/services/graph/penetration.py behind app/api/routers/analysis.py)  *)
(* over the persistent ownership graph written by create_entity and        *)
(* create_ownership, the rule evaluation of app/services/risk_service.py   *)
(* (load_kb, evaluate_kb_risk), and the hybrid entity resolver of          *)
(* app/services/graph_rag.py (resolve_graphrag).                           *)
(*                                                                         *)
(* Numbers the code holds as floats are held here as exact fractions       *)
(* [n, d] in lowest terms, so that sums and products over paths are exact. *)
(***************************************************************************)
EXTENDS Integers, Sequences, FiniteSets, TLC

VARIABLES
    entities,   \* ids of the :Entity nodes of the graph store
    owns,       \* the :OWNS relationships, records [from, to, stake]
    resp,       \* the HTTP response being returned, or NoResp
    match,      \* the variable-length pattern match in progress, or NoMatch
    transactions, \* the Transaction rows of the graph store, latest first
    kb_files,   \* the documents rules.json, lists.json, taxonomy.json on disk
    KB_CACHE,   \* risk_service._KB_CACHE
    risk_resp,  \* the evaluate_kb_risk call being returned (its payload, the
                \* transfer list it evaluated, its result), or NoResp
    risk_prev,  \* the answer a caller keeps of its previous evaluate_kb_risk
                \* call (payload, result, KB snapshot used), or NoResp
    nodes,      \* the properties of the nodes search_entities_fuzzy reads,
                \* by entity
    rag_resp,   \* the resolve_graphrag call being returned (its request, what
                \* its collaborators did, its result), or NoResp
    records,    \* the record objects the fetchers of analyze_entity_risks
                \* hand back, by section
    analyses,   \* how many times these record objects have been analysed
    agg_resp,   \* the analyze_entity_risks call being returned, or NoResp
    kb_threads, \* the threads inside load_kb / evaluate_kb_risk: where each
                \* stands and what it holds in its locals
    kb_loads    \* how many times the documents have been read

graph_vars == <<entities, owns, transactions>>
risk_vars == <<kb_files, KB_CACHE, risk_resp, risk_prev>>
rag_vars == <<nodes, rag_resp>>
agg_vars == <<records, analyses, agg_resp>>
thread_vars == <<kb_threads, kb_loads>>
vars == <<entities, owns, resp, match, transactions, kb_files, KB_CACHE, risk_resp,
         risk_prev, nodes, rag_resp, records, analyses, agg_resp, kb_threads,
         kb_loads>>

(***************************************************************************)
(* Bounds of the model and constants of the program.                       *)
(***************************************************************************)
NumIds == 2            \* ids the write endpoints are called with: 1..NumIds
MaxEdges == 2          \* OWNS edges among those ids
ChainLen == 12         \* nodes of the long ownership chain snapshot
MaxHops == 10          \* the upper bound of the pattern [:OWNS*1..10]
DefaultMaxPaths == 3   \* api_get_penetration(..., max_paths: int = 3)
NULL == -1             \* a property that is not set (Python None, Cypher null)

Ids == 1 .. NumIds
StakeInputs == {NULL, 50}
DepthInputs == (-1 .. MaxEdges) \cup {MaxHops, MaxHops + 1}
PathsDepthInputs == -1 .. MaxEdges
MaxPathsInputs == -1 .. MaxEdges

Edge(a, b, s) == [from |-> a, to |-> b, stake |-> s]

(***************************************************************************)
(* Float arithmetic of the Cypher expressions, as exact fractions.         *)
(***************************************************************************)
RECURSIVE Gcd(_, _)
Gcd(a, b) == IF b = 0 THEN a ELSE Gcd(b, a % b)

Rat(n, d) == IF n = 0 THEN [n |-> 0, d |-> 1]
             ELSE LET g == Gcd(n, d) IN [n |-> n \div g, d |-> d \div g]

Zero == Rat(0, 1)
One == Rat(1, 1)
Hundred == Rat(100, 1)

RatMul(x, y) == Rat(x.n * y.n, x.d * y.d)

RatAdd(x, y) ==
    LET g == Gcd(x.d, y.d)
        l == x.d * (y.d \div g)
    IN  Rat(x.n * (l \div x.d) + y.n * (l \div y.d), l)

RatLess(x, y) ==
    LET g == Gcd(x.d, y.d)
        l == x.d * (y.d \div g)
    IN  x.n * (l \div x.d) < y.n * (l \div y.d)

RatLeq(x, y) == ~RatLess(y, x)

(***************************************************************************)
(* Snapshots the graph store may hold when the service starts.             *)
(***************************************************************************)
EmptyGraph == [entities |-> {}, owns |-> {}]

\* A owns B 50, A owns C 40, B owns C 30 (A = 1, B = 2, C = 3)
ExampleGraph ==
    [entities |-> {1, 2, 3},
     owns |-> {Edge(1, 2, 50), Edge(1, 3, 40), Edge(2, 3, 30)}]

\* 1 owns 2 owns 3 ... owns ChainLen, every stake 50
ChainGraph ==
    [entities |-> 1 .. ChainLen,
     owns |-> {Edge(i, i + 1, 50) : i \in 1 .. (ChainLen - 1)}]

Snapshots == {EmptyGraph, ExampleGraph, ChainGraph}

(***************************************************************************)
(* MATCH p = (root)-[:OWNS*1..10]->(n:Entity) WHERE length(p) <= $depth    *)
(* A path is the sequence of its relationships. Cypher never traverses the *)
(* same relationship twice within one match of a pattern.                  *)
(***************************************************************************)
EndNode(p) == p[Len(p)].to

Uses(p, e) == \E i \in 1 .. Len(p) : p[i] = e

Extend(P) ==
    UNION {{Append(p, e) : e \in {x \in owns : x.from = EndNode(p) /\ ~Uses(p, x)}} : p \in P}

\* P holds the paths of k relationships: are longer ones to be looked for
MoreHops_noCap(P, k, maxHops) == P # {}

MoreHops(P, k, maxHops) == P # {} /\ k < maxHops

RECURSIVE VarLengthExpand(_, _, _)
VarLengthExpand(P, k, maxHops) ==
    IF ~MoreHops(P, k, maxHops) THEN P
    ELSE P \cup VarLengthExpand(Extend(P), k + 1, maxHops)

MatchOwnsPaths_exactLength(root, depth) ==
    IF root \notin entities THEN {}
    ELSE {p \in VarLengthExpand({<<e>> : e \in {x \in owns : x.from = root}}, 1, MaxHops) :
            Len(p) = depth}

MatchOwnsPaths(root, depth) ==
    IF root \notin entities THEN {}
    ELSE {p \in VarLengthExpand({<<e>> : e \in {x \in owns : x.from = root}}, 1, MaxHops) :
            Len(p) <= depth}

\* coalesce(r.stake, 100.0)/100.0
StakeRatio_nullIsZero(e) == Rat(IF e.stake = NULL THEN 0 ELSE e.stake, 100)

StakeRatio(e) == Rat(IF e.stake = NULL THEN 100 ELSE e.stake, 100)

\* reduce(prod = 1.0, r IN relationships(p) | prod * coalesce(r.stake, 100.0)/100.0)
RECURSIVE ReduceProd(_, _, _)
ReduceProd(p, i, prod) ==
    IF i > Len(p) THEN prod
    ELSE ReduceProd(p, i + 1, RatMul(prod, StakeRatio(p[i])))

PathPen(p) == ReduceProd(p, 1, One)

\* sum(pen), grouped by n
RECURSIVE AggMax(_)
AggMax(P) ==
    IF P = {} THEN Zero
    ELSE LET p == CHOOSE x \in P : TRUE
             rest == AggMax(P \ {p})
         IN  IF RatLess(rest, PathPen(p)) THEN PathPen(p) ELSE rest

RECURSIVE AggSum(_)
AggSum(P) ==
    IF P = {} THEN Zero
    ELSE LET p == CHOOSE x \in P : TRUE
         IN  RatAdd(PathPen(p), AggSum(P \ {p}))

\* RETURN n.id AS id, sum(pen) AS penetration: one row per end node n
SumByEndNode(P) ==
    [n \in {EndNode(p) : p \in P} |-> AggSum({p \in P : EndNode(p) = n})]

\* the rows of the basic query before ORDER BY: n.id -> sum(pen)
PenetrationRows(root, depth) == SumByEndNode(MatchOwnsPaths(root, depth))

\* ORDER BY key DESC: every order of S that is descending in key; rows with
\* equal keys come in an order the query does not determine
RECURSIVE OrderByDesc_ascending(_, _)
OrderByDesc_ascending(S, key) ==
    IF S = {} THEN {<<>>}
    ELSE LET low == {x \in S : \A y \in S : RatLeq(key[x], key[y])}
         IN  UNION {{<<m>> \o rest : rest \in OrderByDesc_ascending(S \ {m}, key)} : m \in low}

RECURSIVE OrderByDesc(_, _)
OrderByDesc(S, key) ==
    IF S = {} THEN {<<>>}
    ELSE LET top == {x \in S : \A y \in S : RatLeq(key[y], key[x])}
         IN  UNION {{<<m>> \o rest : rest \in OrderByDesc(S \ {m}, key)} : m \in top}

(***************************************************************************)
(* get_equity_penetration: the set of results a call can return.           *)
(***************************************************************************)
EmptyDict == [k \in {} |-> NULL]

RootRecord(root_id) == [id |-> root_id]

get_equity_penetration_emptyIsNotFound(root_id, depth) ==
    IF root_id \notin entities \/ MatchOwnsPaths(root_id, depth) = {} THEN {EmptyDict}
    ELSE {[root |-> RootRecord(root_id),
           items |-> [i \in 1 .. Len(ord) |->
                        [id |-> ord[i],
                         penetration |-> RatMul(PenetrationRows(root_id, depth)[ord[i]], Hundred)]]]
            : ord \in OrderByDesc(DOMAIN PenetrationRows(root_id, depth),
                                  PenetrationRows(root_id, depth))}

\* the items built from the rows, the root record attached
BasicResults(root_id, rows) ==
    {[root |-> RootRecord(root_id),
      items |-> [i \in 1 .. Len(ord) |->
                   [id |-> ord[i], penetration |-> RatMul(rows[ord[i]], Hundred)]]]
       : ord \in OrderByDesc(DOMAIN rows, rows)}

get_equity_penetration(root_id, depth) ==
    IF root_id \notin entities THEN {EmptyDict}
    ELSE BasicResults(root_id, PenetrationRows(root_id, depth))

(***************************************************************************)
(* get_equity_penetration_with_paths: the set of results a call can return.*)
(***************************************************************************)
\* Python s[:k]
PyPrefix(s, k) ==
    LET stop == IF k >= 0 THEN (IF k < Len(s) THEN k ELSE Len(s))
                ELSE (IF Len(s) + k > 0 THEN Len(s) + k ELSE 0)
    IN  SubSeq(s, 1, stop)

\* max(0, int(max_paths or 0))
SliceBound_raw(max_paths) == max_paths

SliceBound(max_paths) == IF max_paths > 0 THEN max_paths ELSE 0

\* {nodes: nodes_list, rels: rels_list, path_penetration: pen}
PathRecord_endNodes(root, p) ==
    [nodes |-> [i \in 1 .. Len(p) |-> p[i].to],
     rels |-> p,
     path_penetration |-> PathPen(p)]

PathRecord(root, p) ==
    [nodes |-> <<root>> \o [i \in 1 .. Len(p) |-> p[i].to],
     rels |-> p,
     path_penetration |-> PathPen(p)]

\* the rows of the query with paths before ORDER BY:
\* n.id -> [penetration: sum(pen), paths: collect({...})]
PathsRows(root, depth) ==
    LET P == MatchOwnsPaths(root, depth)
    IN  [n \in {EndNode(p) : p \in P} |->
            [penetration |-> AggSum({p \in P : EndNode(p) = n}),
             paths |-> {PathRecord(root, p) : p \in {q \in P : EndNode(q) = n}}]]

\* sorted(paths, key=path_penetration, reverse=True)[: max(0, max_paths)],
\* each path_penetration turned into a percentage; collect() hands the paths
\* over in an order the query does not determine
TopPaths(paths, max_paths) ==
    LET key == [r \in paths |-> r.path_penetration]
    IN  {PyPrefix([i \in 1 .. Len(s) |->
                     [nodes |-> s[i].nodes, rels |-> s[i].rels,
                      path_penetration |-> RatMul(s[i].path_penetration, Hundred)]],
                  SliceBound(max_paths))
           : s \in OrderByDesc(paths, key)}

RECURSIVE SumPathPen(_, _)
SumPathPen(tp, i) ==
    IF i > Len(tp) THEN Zero ELSE RatAdd(tp[i].path_penetration, SumPathPen(tp, i + 1))

RECURSIVE ItemSeqs_sumOfListed(_, _, _, _)
ItemSeqs_sumOfListed(rows, ord, i, max_paths) ==
    IF i > Len(ord) THEN {<<>>}
    ELSE UNION {{<<[id |-> ord[i],
                    penetration |-> SumPathPen(tp, 1),
                    paths |-> tp]>> \o rest
                   : rest \in ItemSeqs_sumOfListed(rows, ord, i + 1, max_paths)}
                 : tp \in TopPaths(rows[ord[i]].paths, max_paths)}

RECURSIVE ItemSeqs(_, _, _, _)
ItemSeqs(rows, ord, i, max_paths) ==
    IF i > Len(ord) THEN {<<>>}
    ELSE UNION {{<<[id |-> ord[i],
                    penetration |-> RatMul(rows[ord[i]].penetration, Hundred),
                    paths |-> tp]>> \o rest
                   : rest \in ItemSeqs(rows, ord, i + 1, max_paths)}
                 : tp \in TopPaths(rows[ord[i]].paths, max_paths)}

get_equity_penetration_with_paths(root_id, depth, max_paths) ==
    IF root_id \notin entities THEN {EmptyDict}
    ELSE LET rows == PathsRows(root_id, depth)
             key == [n \in DOMAIN rows |-> rows[n].penetration]
         IN  UNION {{[root |-> RootRecord(root_id), items |-> its]
                       : its \in ItemSeqs(rows, ord, 1, max_paths)}
                     : ord \in OrderByDesc(DOMAIN rows, key)}

(***************************************************************************)
(* The rule knowledge base (app/kb/*.json read by risk_service.load_kb)    *)
(* and evaluate_kb_risk.  Python dicts are functions whose DOMAIN is the   *)
(* set of keys present.  Weights, thresholds and raw scores are counted in *)
(* thousandths, scores in thousandths of a point, amounts in CNY.          *)
(* Accounts and dates are numbered; a missing or None field of a transfer  *)
(* is NULL for numbers and "" for strings, both falsy as in Python.        *)
(***************************************************************************)
MaxTransfers == 5
DefaultThreshold == 1000
DerivedCap == 100
NoneStr == "None"

Get(d, k, default) == IF k \in DOMAIN d THEN d[k] ELSE default
Range(s) == {s[i] : i \in DOMAIN s}
Truthy(x) == x # NULL /\ x # 0
Or(x, y) == IF Truthy(x) THEN x ELSE y

\* str.upper() over the alphabet of the model's names
UpperChar(c) == CASE c = "a" -> "A" [] c = "b" -> "B" [] OTHER -> c
Upper_identity(s) == s
Upper(s) == [i \in DOMAIN s |-> UpperChar(s[i])]

\* round(score, 2): to the nearest hundredth of a point, halves to even
Round2(x) ==
    LET r == x % 10
        base == x - r
    IN  IF r < 5 THEN base
        ELSE IF r > 5 THEN base + 10
        ELSE IF (base \div 10) % 2 = 0 THEN base ELSE base + 10

RECURSIVE SeqSum(_)
SeqSum(s) == IF s = <<>> THEN 0 ELSE Head(s) + SeqSum(Tail(s))

RECURSIVE SeqMax(_)
SeqMax(s) == IF Len(s) = 1 THEN s[1]
             ELSE LET m == SeqMax(Tail(s)) IN IF Head(s) >= m THEN Head(s) ELSE m

\* lst.append(x) when x is not yet in lst
AppendNew(lst, x) == IF x \in Range(lst) THEN lst ELSE Append(lst, x)

RECURSIVE ExtendNew(_, _)
ExtendNew(lst, xs) == IF xs = <<>> THEN lst
                      ELSE ExtendNew(AppendNew(lst, Head(xs)), Tail(xs))

\* sep.join(parts), as the sequence of the pieces of the string
RECURSIVE Join(_, _)
Join(parts, sep) == IF parts = <<>> THEN <<>>
                    ELSE IF Len(parts) = 1 THEN <<parts[1]>>
                    ELSE <<parts[1], sep>> \o Join(Tail(parts), sep)

RECURSIVE JoinParts(_, _)
JoinParts(parts, sep) == IF parts = <<>> THEN <<>>
                         ELSE IF Len(parts) = 1 THEN parts[1]
                         ELSE parts[1] \o <<sep>> \o JoinParts(Tail(parts), sep)

(***************************************************************************)
(* Rule documents.                                                         *)
(***************************************************************************)
FeatureOrder == <<"small_amount", "multi_accounts", "consecutive_days",
                  "same_beneficiary", "total_volume", "cross_border",
                  "same_offshore_beneficiary", "frequency">>

SanctionRule == [id |-> "sanctions_hit", category |-> "sanctions",
                 match |-> [counterparty_name_in_sanctions |-> TRUE],
                 effect |-> [score |-> 100000]]
WatchRule == [id |-> "watchlist_hit",
              match |-> [counterparty_name_in_sanctions |-> TRUE],
              effect |-> [score |-> 90004]]
PepRule == [id |-> "pep", category |-> "pep",
            match |-> [counterparty_name_in_sanctions |-> FALSE],
            effect |-> [score |-> 80000]]

SmallSumRule == [id |-> "small_sum_aggregation", category |-> "aml.ssa",
                 weights |-> ("small_amount" :> 300) @@ ("multi_accounts" :> 300)
                             @@ ("consecutive_days" :> 200) @@ ("same_beneficiary" :> 200),
                 threshold |-> 1000,
                 hints |-> [small_amount_cny_max |-> 50]]
VolumeRule == [id |-> "volume", category |-> "aml.volume",
               weights |-> ("total_volume" :> 500) @@ ("frequency" :> 499)
                           @@ ("small_amount" :> 1)]
OffshoreRule == [id |-> "offshore",
                 weights |-> ("cross_border" :> 400) @@ ("same_offshore_beneficiary" :> 600)
                             @@ ("velocity" :> 1000),
                 threshold |-> 600]

OkFile(doc) == [state |-> "ok", json |-> doc]
MissingFile == [state |-> "missing"]
CorruptFile == [state |-> "corrupt"]

RulesFiles ==
    {MissingFile, CorruptFile,
     OkFile([deterministic |-> <<SanctionRule>>, weighted |-> <<SmallSumRule>>]),
     OkFile([deterministic |-> <<WatchRule, SanctionRule, PepRule>>,
             weighted |-> <<VolumeRule, SmallSumRule, OffshoreRule>>]),
     OkFile([deterministic |-> <<WatchRule>>,
             weighted |-> <<SmallSumRule, VolumeRule, OffshoreRule>>]),
     OkFile([weighted |-> <<OffshoreRule>>])}

Name1 == <<"A", "b">>
Name2 == <<"B", "a">>
ListsFiles ==
    {MissingFile,
     OkFile([sanctioned_parties |-> <<Name1, Name2>>, high_risk_regions |-> <<"HK">>])}

TaxonomyFiles == {MissingFile, OkFile([version |-> "1"])}

KBFiles == [rules : RulesFiles, lists : ListsFiles, taxonomy : TaxonomyFiles]
ShippedKB == [rules |-> OkFile([deterministic |-> <<SanctionRule>>,
                                 weighted |-> <<SmallSumRule>>]),
              lists |-> OkFile([sanctioned_parties |-> <<Name1, Name2>>,
                                high_risk_regions |-> <<"HK">>]),
              taxonomy |-> OkFile([version |-> "1"])]

\* _load(name)
\* a load that takes a missing document for a damaged one
Load_missingIsError(file) ==
    IF file.state = "ok" THEN file.json ELSE ("__error__" :> "Failed to load")

Load(file) == CASE file.state = "missing" -> EmptyDict
                [] file.state = "corrupt" -> ("__error__" :> "Failed to load")
                [] OTHER -> file.json

\* a load that reads the documents on every call
LoadKb_alwaysReads(cache, files, force) ==
    [rules |-> Load(files.rules), lists |-> Load(files.lists),
     taxonomy |-> Load(files.taxonomy)]

\* the value load_kb(force) returns and leaves in _KB_CACHE
LoadKb(cache, files, force) ==
    IF DOMAIN cache # {} /\ ~force THEN cache
    ELSE [rules |-> Load(files.rules), lists |-> Load(files.lists),
          taxonomy |-> Load(files.taxonomy)]

(***************************************************************************)
(* evaluate_kb_risk.                                                       *)
(***************************************************************************)
\* get_transactions(entity_id, "both"): the rows that touch the entity
TouchesEntity(tx, entity_id) == tx.from_id = entity_id \/ tx.to_id = entity_id

get_transactions(entity_id) ==
    SelectSeq(transactions, LAMBDA tx : TouchesEntity(tx, entity_id))

\* one derived transfer per transaction row
Derived(tx) == [from |-> Or(tx.from_id, NULL), to |-> Or(tx.to_id, NULL),
                amount_cny |-> Or(tx.amount, NULL), date |-> Or(tx.time, NULL),
                to_region |-> ""]

\* the transfer list the call evaluates
InputTransfers(payload, graph_up) ==
    LET transfers == Get(payload, "transfers", <<>>)
        entity_id == Get(payload, "entity_id", NULL)
    IN  IF Truthy(entity_id) /\ transfers = <<>>
        THEN LET txs == IF graph_up THEN get_transactions(entity_id) ELSE <<>>
             IN  PyPrefix([i \in DOMAIN txs |-> Derived(txs[i])], DerivedCap)
        ELSE transfers

\* beneficiary_name and beneficiary_name.upper() in {s.upper() for s in sanctioned_parties}
Sanctioned(lists, beneficiary_name) ==
    /\ beneficiary_name # <<>>
    /\ Upper(beneficiary_name)
          \in {Upper(s) : s \in Range(Get(lists, "sanctioned_parties", <<>>))}

DetScore(score, effect_score) == IF effect_score > score THEN effect_score ELSE score

\* one turn of the loop over the deterministic rules
DeterministicStep(st, rule, sanctioned) ==
    IF Get(Get(rule, "match", EmptyDict), "counterparty_name_in_sanctions", FALSE)
       /\ sanctioned
    THEN [st EXCEPT
            !.det_triggers = Append(@, Get(rule, "id", "unknown")),
            !.score = DetScore(@, Get(Get(rule, "effect", EmptyDict), "score", 0)),
            !.labels = IF Get(rule, "category", "") # ""
                       THEN AppendNew(@, rule.category) ELSE @]
    ELSE st

\* the amounts that are neither missing nor zero
Amounts(transfers) ==
    SelectSeq([i \in DOMAIN transfers |-> transfers[i].amount_cny], Truthy)

\* the flags computed before the loop over the weighted rules
TransferFlags(transfers, lists) ==
    LET from_accounts == {transfers[i].from : i \in DOMAIN transfers} \ {NULL, 0}
        to_accounts == {transfers[i].to : i \in DOMAIN transfers} \ {NULL, 0}
        distinct_days == {transfers[i].date : i \in DOMAIN transfers} \ {NULL, 0}
        region_set == {transfers[i].to_region : i \in DOMAIN transfers} \ {""}
        offshore_list == Range(Get(lists, "high_risk_regions", <<>>))
        same_beneficiary == transfers # <<>> /\ Cardinality(to_accounts) = 1
    IN  [small_amount |-> FALSE,
         multi_accounts |-> transfers # <<>> /\ Cardinality(from_accounts) >= 3,
         consecutive_days |-> transfers # <<>> /\ Cardinality(distinct_days) >= 5,
         same_beneficiary |-> same_beneficiary,
         total_volume |-> FALSE,
         cross_border |-> transfers # <<>> /\ Cardinality(region_set) > 1,
         same_offshore_beneficiary |-> /\ transfers # <<>>
                                       /\ region_set # {}
                                       /\ region_set \subseteq offshore_list
                                       /\ same_beneficiary,
         frequency |-> Len(transfers) >= 3]

HintedFlags_strictCeiling(flags, w_rule, amounts) ==
    LET hints == Get(w_rule, "hints", EmptyDict)
    IN  IF "small_amount_cny_max" \in DOMAIN hints /\ amounts # <<>>
        THEN [flags EXCEPT
                !.small_amount = SeqMax(amounts) < hints.small_amount_cny_max,
                !.total_volume = SeqSum(amounts) >= 3 * hints.small_amount_cny_max]
        ELSE flags

\* small_amount_flag and total_volume_flag as a rule with the hint sets them
HintedFlags(flags, w_rule, amounts) ==
    LET hints == Get(w_rule, "hints", EmptyDict)
    IN  IF "small_amount_cny_max" \in DOMAIN hints /\ amounts # <<>>
        THEN [flags EXCEPT
                !.small_amount = SeqMax(amounts) <= hints.small_amount_cny_max,
                !.total_volume = SeqSum(amounts) >= 3 * hints.small_amount_cny_max]
        ELSE flags

Passed_strict(raw_score, threshold) == raw_score > threshold
Passed(raw_score, threshold) == raw_score >= threshold

WeightedStep_failingRuleCounts(st, w_rule, amounts) ==
    LET weights == Get(w_rule, "weights", EmptyDict)
        threshold == Get(w_rule, "threshold", DefaultThreshold)
        flags == HintedFlags(st.flags, w_rule, amounts)
        matched_features == SelectSeq(FeatureOrder,
                                      LAMBDA f : flags[f] /\ f \in DOMAIN weights)
        raw_score == SeqSum([i \in DOMAIN matched_features |-> weights[matched_features[i]]])
        detail == [id |-> Get(w_rule, "id", NoneStr),
                   category |-> Get(w_rule, "category", NoneStr),
                   matched_features |-> matched_features,
                   raw_score |-> raw_score,
                   threshold |-> threshold,
                   passed |-> Passed(raw_score, threshold),
                   feature_weights |-> [i \in DOMAIN matched_features |->
                                          [name |-> matched_features[i],
                                           weight |-> weights[matched_features[i]]]]]
        cat == Get(w_rule, "category", "")
    IN  [st EXCEPT
           !.flags = flags,
           !.weighted_details = Append(@, detail),
           !.labels = IF cat # "" THEN AppendNew(@, cat) ELSE @,
           !.matched_features = ExtendNew(@, matched_features),
           !.score = IF raw_score * 100 > @ THEN raw_score * 100 ELSE @]

\* one turn of the loop over the weighted rules
WeightedStep(st, w_rule, amounts) ==
    LET weights == Get(w_rule, "weights", EmptyDict)
        threshold == Get(w_rule, "threshold", DefaultThreshold)
        flags == HintedFlags(st.flags, w_rule, amounts)
        matched_features == SelectSeq(FeatureOrder,
                                      LAMBDA f : flags[f] /\ f \in DOMAIN weights)
        raw_score == SeqSum([i \in DOMAIN matched_features |-> weights[matched_features[i]]])
        passed == Passed(raw_score, threshold)
        detail == [id |-> Get(w_rule, "id", NoneStr),
                   category |-> Get(w_rule, "category", NoneStr),
                   matched_features |-> matched_features,
                   raw_score |-> raw_score,
                   threshold |-> threshold,
                   passed |-> passed,
                   feature_weights |-> [i \in DOMAIN matched_features |->
                                          [name |-> matched_features[i],
                                           weight |-> weights[matched_features[i]]]]]
        cat == Get(w_rule, "category", "")
    IN  [st EXCEPT
           !.flags = flags,
           !.weighted_details = Append(@, detail),
           !.labels = IF passed /\ cat # "" THEN AppendNew(@, cat) ELSE @,
           !.matched_features = IF passed THEN ExtendNew(@, matched_features) ELSE @,
           !.score = IF passed /\ raw_score * 100 > @ THEN raw_score * 100 ELSE @]

RECURSIVE DeterministicPhase(_, _, _)
DeterministicPhase(st, rules, sanctioned) ==
    IF rules = <<>> THEN st
    ELSE DeterministicPhase(DeterministicStep(st, Head(rules), sanctioned),
                            Tail(rules), sanctioned)

RECURSIVE WeightedPhase(_, _, _)
WeightedPhase(st, rules, amounts) ==
    IF rules = <<>> THEN st
    ELSE WeightedPhase(WeightedStep(st, Head(rules), amounts), Tail(rules), amounts)

\* feature_flags as weighted rule i reads them, after the rules before it
FeatureFlagsAt(transfers, lists, w_rules, i) ==
    LET st0 == [score |-> 0, labels |-> <<>>, matched_features |-> <<>>,
                weighted_details |-> <<>>, flags |-> TransferFlags(transfers, lists)]
        before == WeightedPhase(st0, SubSeq(w_rules, 1, i - 1), Amounts(transfers))
    IN  HintedFlags(before.flags, w_rules[i], Amounts(transfers))

Explanation(det_triggers, matched_features) ==
    LET det == IF det_triggers # <<>>
               THEN << <<"Deterministic triggers: ">> \o Join(det_triggers, ", ") >>
               ELSE <<>>
        mf == IF matched_features # <<>>
              THEN << <<"Matched features: ">> \o Join(matched_features, ", ") >>
              ELSE <<>>
        parts == det \o mf
    IN  JoinParts(IF parts = <<>> THEN << <<"No rules matched">> >> ELSE parts, "; ")

\* the record evaluate_kb_risk returns for the cached knowledge base kb
EvaluateKb(kb, payload, graph_up) ==
    LET rules == Get(kb, "rules", EmptyDict)
        lists == Get(kb, "lists", EmptyDict)
        transfers == InputTransfers(payload, graph_up)
        sanctioned == Sanctioned(lists, Get(payload, "beneficiary_name", <<>>))
        st0 == [score |-> 0, det_triggers |-> <<>>, labels |-> <<>>,
                matched_features |-> <<>>, weighted_details |-> <<>>,
                flags |-> TransferFlags(transfers, lists)]
        st1 == DeterministicPhase(st0, Get(rules, "deterministic", <<>>), sanctioned)
        st2 == WeightedPhase(st1, Get(rules, "weighted", <<>>), Amounts(transfers))
    IN  [score |-> Round2(st2.score),
         labels |-> st2.labels,
         deterministic_triggers |-> st2.det_triggers,
         matched_features |-> st2.matched_features,
         weighted_details |-> st2.weighted_details,
         explanation |-> Explanation(st2.det_triggers, st2.matched_features),
         input_entity_id |-> Get(payload, "entity_id", NULL),
         input_transfer_count |-> Len(transfers)]

(***************************************************************************)
(* Rule entries that are not valid.  A JSON null is NULL; an entry that is *)
(* a JSON string instead of an object is NotARecord.                       *)
(***************************************************************************)
NotARecord == [py |-> "str"]
IsRecordEntry(rule) == "py" \notin DOMAIN rule
NullScoreRule == [id |-> "null_score",
                  match |-> [counterparty_name_in_sanctions |-> TRUE],
                  effect |-> [score |-> NULL]]
NullThresholdRule == [id |-> "null_threshold", category |-> "aml.null",
                      weights |-> ("frequency" :> 500), threshold |-> NULL]
NullWeightRule == [id |-> "null_weight", category |-> "aml.null",
                   weights |-> ("frequency" :> NULL) @@ ("same_beneficiary" :> 500),
                   threshold |-> 500]

MalformedRulesFiles ==
    {OkFile([deterministic |-> <<SanctionRule>>,
             weighted |-> <<NullThresholdRule, SmallSumRule>>]),
     OkFile([deterministic |-> <<NotARecord, SanctionRule>>,
             weighted |-> <<SmallSumRule>>]),
     OkFile([deterministic |-> <<NullScoreRule, SanctionRule>>,
             weighted |-> <<SmallSumRule>>]),
     OkFile([deterministic |-> <<SanctionRule>>,
             weighted |-> <<NullWeightRule, VolumeRule>>]),
     OkFile([deterministic |-> <<SanctionRule>>,
             weighted |-> <<SmallSumRule, NotARecord>>])}
MalformedKBFiles ==
    [rules : MalformedRulesFiles,
     lists : {OkFile([sanctioned_parties |-> <<Name1, Name2>>,
                      high_risk_regions |-> <<"HK">>])},
     taxonomy : TaxonomyFiles]

\* rule.get(...) of an entry that is no dict, or float(None) of the effect
\* score of a rule that triggers
DeterministicRaises(rule, sanctioned) ==
    \/ ~IsRecordEntry(rule)
    \/ /\ Get(Get(rule, "match", EmptyDict), "counterparty_name_in_sanctions", FALSE)
       /\ sanctioned
       /\ Get(Get(rule, "effect", EmptyDict), "score", 0) = NULL

\* w_rule.get(...) of an entry that is no dict, float(None) of the
\* threshold, or float(None) of the weight of a feature that is flagged
WeightedRaises(w_rule, flags) ==
    \/ ~IsRecordEntry(w_rule)
    \/ Get(w_rule, "threshold", DefaultThreshold) = NULL
    \/ \E f \in DOMAIN Get(w_rule, "weights", EmptyDict) \cap DOMAIN flags :
          flags[f] /\ w_rule.weights[f] = NULL

\* does the evaluation raise before it returns
Raises(kb, payload, graph_up) ==
    LET rules == Get(kb, "rules", EmptyDict)
        lists == Get(kb, "lists", EmptyDict)
        deterministic_rules == Get(rules, "deterministic", <<>>)
        weighted_rules == Get(rules, "weighted", <<>>)
        transfers == InputTransfers(payload, graph_up)
        sanctioned == Sanctioned(lists, Get(payload, "beneficiary_name", <<>>))
    IN  \/ \E i \in DOMAIN deterministic_rules :
              DeterministicRaises(deterministic_rules[i], sanctioned)
        \/ \E i \in DOMAIN weighted_rules :
              WeightedRaises(weighted_rules[i],
                             FeatureFlagsAt(transfers, lists, weighted_rules, i))

\* what a call of evaluate_kb_risk ends in: the record it returns, or the
\* exception that leaves it
EvaluateKbRisk(kb, payload, graph_up) ==
    IF Raises(kb, payload, graph_up) THEN [error |-> "raised"]
    ELSE EvaluateKb(kb, payload, graph_up)

(***************************************************************************)
(* The state machine.                                                      *)
(***************************************************************************)
NoResp == [endpoint |-> "none"]
NoMatch == [state |-> "none"]
\* no node carries a profile
NoNodes == <<>>
NoRecords == <<>>
\* nothing is being analysed
NoAnalysis == records = NoRecords /\ analyses = 0 /\ agg_resp = NoResp
\* no thread is inside load_kb
NoThreads == kb_threads = <<>> /\ kb_loads = 0

Init ==
    /\ \E g \in Snapshots : entities = g.entities /\ owns = g.owns
    /\ resp = NoResp
    /\ match = NoMatch
    /\ transactions = <<>>
    /\ kb_files = ShippedKB
    /\ KB_CACHE = EmptyDict
    /\ risk_resp = NoResp
    /\ risk_prev = NoResp
    /\ nodes = NoNodes
    /\ rag_resp = NoResp
    /\ NoAnalysis
    /\ NoThreads

\* MERGE (e:Entity {id: $id})
create_entity(entity_id) ==
    /\ resp = NoResp /\ match = NoMatch
    /\ entities' = entities \cup {entity_id}
    /\ UNCHANGED <<agg_vars, thread_vars, rag_vars, owns, resp, match, transactions, risk_vars>>

\* MATCH (a), (b) MERGE (a)-[r:OWNS]->(b) SET r.stake = $stake
create_ownership(owner_id, owned_id, stake) ==
    /\ resp = NoResp /\ match = NoMatch
    /\ owner_id \in entities /\ owned_id \in entities
    /\ \/ \E e \in owns : e.from = owner_id /\ e.to = owned_id
       \/ Cardinality({e \in owns : e.from \in Ids /\ e.to \in Ids}) < MaxEdges
    /\ owns' = {e \in owns : ~(e.from = owner_id /\ e.to = owned_id)}
                 \cup {Edge(owner_id, owned_id, stake)}
    /\ UNCHANGED <<agg_vars, thread_vars, rag_vars, entities, resp, match, transactions, risk_vars>>

\* GET /penetration/{entity_id}?depth=..  (include_paths = false)
api_get_penetration(entity_id, depth) ==
    /\ resp = NoResp
    /\ \E res \in get_equity_penetration(entity_id, depth) :
          resp' = [endpoint |-> "penetration", entity_id |-> entity_id, depth |-> depth,
                   include_paths |-> FALSE, max_paths |-> DefaultMaxPaths,
                   status |-> IF DOMAIN res = {} THEN 404 ELSE 200,
                   body |-> res]
    /\ UNCHANGED <<agg_vars, thread_vars, rag_vars, graph_vars, match, risk_vars>>

\* GET /penetration/{entity_id}?depth=..&include_paths=true&max_paths=..
api_get_penetration_with_paths(entity_id, depth, max_paths) ==
    /\ resp = NoResp
    /\ \E res \in get_equity_penetration_with_paths(entity_id, depth, max_paths) :
          resp' = [endpoint |-> "penetration", entity_id |-> entity_id, depth |-> depth,
                   include_paths |-> TRUE, max_paths |-> max_paths,
                   status |-> IF DOMAIN res = {} THEN 404 ELSE 200,
                   body |-> res]
    /\ UNCHANGED <<agg_vars, thread_vars, rag_vars, graph_vars, match, risk_vars>>

\* the response leaves the service
send_response ==
    /\ resp # NoResp /\ match = NoMatch
    /\ resp' = NoResp
    /\ UNCHANGED <<agg_vars, thread_vars, rag_vars, graph_vars, match, risk_vars>>

Next ==
    \/ \E id \in Ids : create_entity(id)
    \/ \E a \in Ids, b \in Ids, s \in StakeInputs : create_ownership(a, b, s)
    \/ \E id \in Ids, d \in DepthInputs : api_get_penetration(id, d)
    \/ \E id \in Ids, d \in PathsDepthInputs, m \in MaxPathsInputs :
          api_get_penetration_with_paths(id, d, m)
    \/ send_response

Spec == Init /\ [][Next]_vars

(***************************************************************************)
(* The same call with the graph store's evaluation of the pattern          *)
(* (root)-[:OWNS*1..10]->(n) taken one hop at a time: match.frontier holds *)
(* the paths of match.hop relationships, match.found the shorter ones.     *)
(* The store runs a query it has started to its end.                       *)
(***************************************************************************)
MatchDepthInputs == {0, MaxEdges, MaxHops + 1}

begin_match(root_id, depth) ==
    /\ resp = NoResp /\ match = NoMatch
    /\ root_id \in entities
    /\ match' = [state |-> "expanding", root |-> root_id, depth |-> depth, hop |-> 1,
                 frontier |-> {<<e>> : e \in {x \in owns : x.from = root_id}},
                 found |-> {}]
    /\ UNCHANGED <<agg_vars, thread_vars, rag_vars, graph_vars, resp, risk_vars>>

expand_hop ==
    /\ match.state = "expanding"
    /\ IF MoreHops(match.frontier, match.hop, MaxHops)
       THEN match' = [match EXCEPT !.found = @ \cup match.frontier,
                                   !.frontier = Extend(match.frontier),
                                   !.hop = @ + 1]
       ELSE match' = [match EXCEPT !.found = {p \in @ \cup match.frontier :
                                                Len(p) <= match.depth},
                                   !.frontier = {},
                                   !.state = "done"]
    /\ UNCHANGED <<agg_vars, thread_vars, rag_vars, graph_vars, resp, risk_vars>>

\* the rows come back and get_equity_penetration builds its result
end_match ==
    /\ match.state = "done"
    /\ \E res \in BasicResults(match.root, SumByEndNode(match.found)) :
          resp' = [endpoint |-> "penetration", entity_id |-> match.root,
                   depth |-> match.depth,
                   include_paths |-> FALSE, max_paths |-> DefaultMaxPaths,
                   status |-> 200, body |-> res]
    /\ match' = NoMatch
    /\ UNCHANGED <<agg_vars, thread_vars, rag_vars, graph_vars, risk_vars>>

NextMatch ==
    \/ \E id \in Ids : create_entity(id)
    \/ \E a \in Ids, b \in Ids, s \in StakeInputs : create_ownership(a, b, s)
    \/ \E id \in Ids, d \in MatchDepthInputs : begin_match(id, d)
    \/ expand_hop
    \/ end_match
    \/ send_response

SpecMatch == Init /\ [][NextMatch]_vars /\ WF_vars(expand_hop)

(***************************************************************************)
(* The risk evaluation service: load_kb and evaluate_kb_risk over the      *)
(* documents on disk and the transactions of the graph store.              *)
(***************************************************************************)
ExampleTransactions ==
    <<[from_id |-> 3, to_id |-> 2, amount |-> 50, time |-> 4],
      [from_id |-> 1, to_id |-> 2, amount |-> 50, time |-> 3],
      [from_id |-> 3, to_id |-> 2, amount |-> 50, time |-> 2],
      [from_id |-> 1, to_id |-> 3, amount |-> 60, time |-> 1]>>

Transfer(i, fp, tp, ap, dp, rp) ==
    [from |-> IF fp = "distinct" THEN i ELSE 1,
     to |-> IF tp = "same" THEN 1 ELSE 1 + (i % 2),
     amount_cny |-> CASE ap = "fifty" -> 50
                      [] ap = "twenty" -> 20
                      [] ap = "sixty" -> IF i = 1 THEN 60 ELSE 50
                      [] ap = "zero" -> IF i = 1 THEN 0 ELSE 50
                      [] OTHER -> NULL,
     date |-> IF dp = "distinct" THEN i ELSE 1,
     to_region |-> CASE rp = "HK" -> "HK"
                     [] rp = "mixed" -> IF i % 2 = 1 THEN "HK" ELSE "CN"
                     [] OTHER -> ""]

TransferLists ==
    {<<>>} \cup
    {[i \in 1 .. n |-> Transfer(i, fp, tp, ap, dp, rp)] :
        n \in 1 .. MaxTransfers, fp \in {"distinct", "same"}, tp \in {"same", "two"},
        ap \in {"fifty", "twenty", "sixty", "zero", "none"},
        dp \in {"distinct", "same"}, rp \in {"HK", "mixed", "none"}}

NameInputs == {<<>>, <<"a", "B">>, <<"b", "b">>}
EntityInputs == {2, 3, 4}

PayloadInputs ==
    {[transfers |-> t, beneficiary_name |-> n] : t \in TransferLists, n \in NameInputs}
    \cup {[entity_id |-> e] : e \in EntityInputs}
    \cup {[entity_id |-> e, beneficiary_name |-> n] : e \in EntityInputs, n \in NameInputs}
    \cup {[entity_id |-> e, beneficiary_name |-> n,
           transfers |-> <<Transfer(1, "same", "same", "fifty", "same", "HK")>>] :
            e \in EntityInputs, n \in NameInputs}

InitRisk ==
    /\ entities = ExampleGraph.entities /\ owns = ExampleGraph.owns
    /\ transactions = ExampleTransactions
    /\ kb_files \in KBFiles
    /\ KB_CACHE = EmptyDict
    /\ risk_resp = NoResp
    /\ risk_prev = NoResp
    /\ nodes = NoNodes
    /\ rag_resp = NoResp
    /\ resp = NoResp
    /\ match = NoMatch
    /\ NoAnalysis
    /\ NoThreads

load_kb(force) ==
    /\ risk_resp = NoResp
    /\ KB_CACHE' = LoadKb(KB_CACHE, kb_files, force)
    /\ UNCHANGED <<agg_vars, thread_vars, rag_vars, graph_vars, resp, match, kb_files, risk_resp, risk_prev>>

\* POST /risk/evaluate: kb = load_kb(), then the two phases
evaluate_kb_risk(payload, graph_up) ==
    /\ risk_resp = NoResp
    /\ KB_CACHE' = LoadKb(KB_CACHE, kb_files, FALSE)
    /\ risk_resp' = [endpoint |-> "risk", payload |-> payload,
                     transfers |-> InputTransfers(payload, graph_up),
                     graph_raised |-> Truthy(Get(payload, "entity_id", NULL)) /\ ~graph_up,
                     result |-> EvaluateKbRisk(KB_CACHE', payload, graph_up)]
    /\ UNCHANGED <<agg_vars, thread_vars, rag_vars, graph_vars, resp, match, kb_files, risk_prev>>

\* the result leaves the service
return_risk ==
    /\ risk_resp # NoResp
    /\ risk_resp' = NoResp
    /\ UNCHANGED <<agg_vars, thread_vars, rag_vars, graph_vars, resp, match, kb_files, KB_CACHE, risk_prev>>

NextRisk ==
    \/ \E force \in BOOLEAN : load_kb(force)
    \/ \E payload \in PayloadInputs, graph_up \in BOOLEAN :
          evaluate_kb_risk(payload, graph_up)
    \/ return_risk

SpecRisk == InitRisk /\ [][NextRisk]_vars

\* the same service over rule documents with invalid entries
InitRiskMalformed ==
    /\ entities = ExampleGraph.entities /\ owns = ExampleGraph.owns
    /\ transactions = ExampleTransactions
    /\ kb_files \in MalformedKBFiles
    /\ KB_CACHE = EmptyDict
    /\ risk_resp = NoResp
    /\ risk_prev = NoResp
    /\ nodes = NoNodes
    /\ rag_resp = NoResp
    /\ resp = NoResp
    /\ match = NoMatch
    /\ NoAnalysis
    /\ NoThreads

SpecRiskMalformed == InitRiskMalformed /\ [][NextRisk]_vars

(***************************************************************************)
(* A caller that repeats evaluations and keeps its previous answer.        *)
(***************************************************************************)
RepeatPayloads ==
    {[entity_id |-> 2],
     [entity_id |-> 2, beneficiary_name |-> <<"a", "B">>],
     [entity_id |-> 4],
     [transfers |-> [i \in 1 .. 3 |-> Transfer(i, "distinct", "same", "fifty", "same", "HK")],
      beneficiary_name |-> <<"a", "B">>],
     [transfers |-> <<>>, beneficiary_name |-> <<"b", "b">>]}

\* the caller takes the answer and is ready to call again
keep_answer ==
    /\ risk_resp # NoResp
    /\ risk_prev' = [payload |-> risk_resp.payload, result |-> risk_resp.result,
                     kb |-> KB_CACHE]
    /\ risk_resp' = NoResp
    /\ UNCHANGED <<agg_vars, thread_vars, rag_vars, graph_vars, resp, match, kb_files, KB_CACHE>>

NextRiskRepeat ==
    \/ \E force \in BOOLEAN : load_kb(force)
    \/ \E payload \in RepeatPayloads, graph_up \in BOOLEAN :
          evaluate_kb_risk(payload, graph_up)
    \/ keep_answer

SpecRiskRepeat == InitRisk /\ [][NextRiskRepeat]_vars

(***************************************************************************)
(* Properties of the penetration engine.                                   *)
(***************************************************************************)
PenResp == resp.endpoint = "penetration"
BasicFound == PenResp /\ ~resp.include_paths /\ resp.status = 200
PathsFound == PenResp /\ resp.include_paths /\ resp.status = 200

Min(a, b) == IF a < b THEN a ELSE b
Max(a, b) == IF a > b THEN a ELSE b

ItemIds(its) == {its[i].id : i \in 1 .. Len(its)}
Totals(its) == {<<its[i].id, its[i].penetration>> : i \in 1 .. Len(its)}

\* The ownership chains of at most L edges that start at node n and use no
\* edge of `used` and no edge twice.
RECURSIVE ChainsFrom(_, _, _)
ChainsFrom(n, used, L) ==
    IF L <= 0 THEN {}
    ELSE UNION {{<<e>>} \cup {<<e>> \o t : t \in ChainsFrom(e.to, used \cup {e}, L - 1)}
                  : e \in {x \in owns : x.from = n /\ x \notin used}}

\* The share passed on by a chain: the product of stake/100 over its edges, an
\* edge without a stake passing on everything.
ShareNum(e) == IF e.stake = NULL THEN 1 ELSE e.stake \div Gcd(e.stake, 100)
ShareDen(e) == IF e.stake = NULL THEN 1 ELSE 100 \div Gcd(e.stake, 100)

RECURSIVE ProdNum(_, _)
ProdNum(p, i) == IF i > Len(p) THEN 1 ELSE ShareNum(p[i]) * ProdNum(p, i + 1)

RECURSIVE ProdDen(_, _)
ProdDen(p, i) == IF i > Len(p) THEN 1 ELSE ShareDen(p[i]) * ProdDen(p, i + 1)

ChainShare(p) == Rat(ProdNum(p, 1), ProdDen(p, 1))

RECURSIVE SumShares(_)
SumShares(P) ==
    IF P = {} THEN Zero
    ELSE LET p == CHOOSE x \in P : TRUE IN RatAdd(ChainShare(p), SumShares(P \ {p}))

\* The look-through share of target held from root through chains of at most
\* L edges.
LookThrough(root, target, L) ==
    SumShares({p \in ChainsFrom(root, {}, L) : p[Len(p)].to = target})

PathsTo(root, depth, n) == {p \in MatchOwnsPaths(root, depth) : EndNode(p) = n}

\* C1 (as claimed): every reported penetration is 100 times the sum, over every
\* ownership path of 1..depth edges from the root to the item, of the product of
\* stake/100 along the path (missing stake = 1.0).
C1_SumOverPathsUpToDepth ==
    BasicFound =>
        \A i \in 1 .. Len(resp.body.items) :
            resp.body.items[i].penetration =
                RatMul(Hundred, LookThrough(resp.entity_id, resp.body.items[i].id, resp.depth))

\* C1 (amended): every reported penetration is 100 times the SUM, over every
\* ownership path of 1..min(depth, 10) edges from the root to the item that uses
\* no edge twice, of the product of stake/100 along the path, a missing stake
\* counting as 1.0; on the graph A owns B 50, A owns C 40, B owns C 30 this
\* reports C = 55 from depth 2 on.
C1_SumOverPathsUpToTenHops ==
    BasicFound =>
        /\ \A i \in 1 .. Len(resp.body.items) :
              resp.body.items[i].penetration =
                  RatMul(Hundred, LookThrough(resp.entity_id, resp.body.items[i].id, Min(resp.depth, MaxHops)))
        /\ (owns = ExampleGraph.owns /\ resp.entity_id = 1 /\ resp.depth >= 2) =>
              [id |-> 3, penetration |-> Rat(55, 1)] \in
                  {resp.body.items[i] : i \in 1 .. Len(resp.body.items)}

\* C1 witness: an item reached by several paths, one of them over an edge with
\* no stake, whose reported total exceeds the best single path.
C1_Witness ==
    /\ BasicFound
    /\ \E i \in 1 .. Len(resp.body.items) :
          LET P == PathsTo(resp.entity_id, resp.depth, resp.body.items[i].id)
          IN  /\ Cardinality(P) >= 2
              /\ \E p \in P : \E k \in 1 .. Len(p) : p[k].stake = NULL
              /\ \A p \in P : RatLess(RatMul(Hundred, PathPen(p)), resp.body.items[i].penetration)

\* C2: the ids reported at depth d are among the ids reported at depth d+1, and
\* no node's penetration is smaller at depth d+1 than at depth d.
C2_DepthMonotone ==
    BasicFound =>
        \A deeper \in get_equity_penetration(resp.entity_id, resp.depth + 1) :
            /\ ItemIds(resp.body.items) \subseteq ItemIds(deeper.items)
            /\ \A i \in 1 .. Len(resp.body.items), j \in 1 .. Len(deeper.items) :
                  resp.body.items[i].id = deeper.items[j].id =>
                      RatLeq(resp.body.items[i].penetration, deeper.items[j].penetration)

\* C2 witness: one more hop adds a node and raises the penetration of another.
C2_Witness ==
    /\ BasicFound
    /\ resp.body.items # <<>>
    /\ \E deeper \in get_equity_penetration(resp.entity_id, resp.depth + 1) :
          /\ ItemIds(deeper.items) # ItemIds(resp.body.items)
          /\ \E i \in 1 .. Len(resp.body.items), j \in 1 .. Len(deeper.items) :
                /\ resp.body.items[i].id = deeper.items[j].id
                /\ RatLess(resp.body.items[i].penetration, deeper.items[j].penetration)

NoEdgeTwice(p) == \A i \in 1 .. Len(p), j \in 1 .. Len(p) : i # j => p[i] # p[j]

\* C3: on every graph, cyclic ones included, the path enumeration of a
\* penetration call ends: it never looks beyond 10 hops, the paths it holds
\* after k hops have k edges and use no edge twice, every enumeration that
\* has begun reaches its end, and the result lists each entity at most once.
C3_CycleTermination ==
    /\ [](match.state = "expanding" =>
            /\ match.hop <= MaxHops
            /\ \A p \in match.frontier : Len(p) = match.hop /\ NoEdgeTwice(p))
    /\ [](match.state = "done" =>
            /\ match.found = MatchOwnsPaths(match.root, match.depth)
            /\ Cardinality({EndNode(p) : p \in match.found}) <= Cardinality(entities))
    /\ [](match.state = "expanding" => <>(match.state = "done"))

\* C3 witness: an enumeration that has ended on a graph with an ownership
\* cycle through the root, asked with a depth beyond the length of the cycle.
C3_Witness ==
    /\ match.state = "done"
    /\ \E p \in match.found : EndNode(p) = match.root /\ Len(p) < match.depth
    /\ \E e \in owns : e.from = match.root /\ e.to # match.root

\* C4: both penetration calls answer not-found (the empty result, status 404)
\* exactly when no entity has the root id; an existing root that owns nothing
\* gets the root record with an empty items list.
C4_NotFoundVersusEmpty ==
    PenResp =>
        /\ (resp.status = 404) <=> (resp.entity_id \notin entities)
        /\ (resp.status = 404) <=> (resp.body = EmptyDict)
        /\ (resp.status # 404) => (resp.status = 200 /\ resp.body.root = [id |-> resp.entity_id])
        /\ (resp.entity_id \in entities /\ ~\E e \in owns : e.from = resp.entity_id) =>
              resp.body = [root |-> [id |-> resp.entity_id], items |-> <<>>]

\* C4 witness: a root that exists and owns nothing, asked with a positive depth.
C4_Witness ==
    /\ PenResp
    /\ resp.depth >= 1
    /\ resp.entity_id \in entities
    /\ ~\E e \in owns : e.from = resp.entity_id
    /\ resp.status = 200
    /\ resp.body.items = <<>>

\* C5 (as claimed): items come in descending penetration, equal penetrations in
\* ascending id.
C5_SortedDescThenById ==
    BasicFound =>
        \A i \in 1 .. Len(resp.body.items), j \in 1 .. Len(resp.body.items) :
            i < j =>
                \/ RatLess(resp.body.items[j].penetration, resp.body.items[i].penetration)
                \/ /\ resp.body.items[j].penetration = resp.body.items[i].penetration
                   /\ resp.body.items[i].id < resp.body.items[j].id

\* C5 (amended): items come in descending penetration; the query orders by
\* penetration alone, so the order of items with equal penetration is not fixed.
C5_SortedDesc ==
    BasicFound =>
        \A i \in 1 .. Len(resp.body.items), j \in 1 .. Len(resp.body.items) :
            i < j => RatLeq(resp.body.items[j].penetration, resp.body.items[i].penetration)

\* C5 witness: three items, two of them with equal penetration.
C5_Witness ==
    /\ BasicFound
    /\ Len(resp.body.items) >= 3
    /\ \E i \in 1 .. Len(resp.body.items), j \in 1 .. Len(resp.body.items) :
          i # j /\ resp.body.items[i].penetration = resp.body.items[j].penetration
    /\ \E i \in 1 .. Len(resp.body.items), j \in 1 .. Len(resp.body.items) :
          RatLess(resp.body.items[j].penetration, resp.body.items[i].penetration)

BasicView(its) == [i \in 1 .. Len(its) |-> [id |-> its[i].id, penetration |-> its[i].penetration]]

\* C6 (as claimed): the call with paths returns the same ids in the same order
\* with the same totals as the basic call for the same root and depth.
C6_SameItemsSameOrder ==
    (PenResp /\ resp.include_paths) =>
        \A basic \in get_equity_penetration(resp.entity_id, resp.depth) :
            IF resp.status = 404 THEN basic = EmptyDict
            ELSE basic # EmptyDict /\ BasicView(resp.body.items) = basic.items

\* C6 (amended): the call with paths returns the same set of ids with the same
\* totals as the basic call for the same root and depth, whatever max_paths is,
\* and like it in descending order of the total; items with equal totals may
\* come in a different relative order in the two calls.
C6_SameTotals ==
    (PenResp /\ resp.include_paths) =>
        \A basic \in get_equity_penetration(resp.entity_id, resp.depth) :
            IF resp.status = 404 THEN basic = EmptyDict
            ELSE /\ basic # EmptyDict
                 /\ basic.root = resp.body.root
                 /\ Len(basic.items) = Len(resp.body.items)
                 /\ Totals(basic.items) = Totals(resp.body.items)
                 /\ \A i \in 1 .. Len(basic.items) :
                       basic.items[i].penetration = resp.body.items[i].penetration

\* C6 witness: an item with more discovered paths than max_paths lets through.
C6_Witness ==
    /\ PathsFound
    /\ \E i \in 1 .. Len(resp.body.items) :
          /\ Len(resp.body.items[i].paths) <
                Cardinality(PathsTo(resp.entity_id, resp.depth, resp.body.items[i].id))
          /\ Len(resp.body.items[i].paths) >= 1

\* C7: each item lists min(max(max_paths, 0), discovered paths) paths, all of
\* them discovered paths to that item, no unlisted path having a higher path
\* penetration than a listed one, in descending path penetration.
C7_TopPaths ==
    PathsFound =>
        \A i \in 1 .. Len(resp.body.items) :
            LET listed == resp.body.items[i].paths
                P == PathsTo(resp.entity_id, resp.depth, resp.body.items[i].id)
                shown == {listed[k].rels : k \in 1 .. Len(listed)}
            IN  /\ Len(listed) = Min(Max(resp.max_paths, 0), Cardinality(P))
                /\ shown \subseteq P
                /\ Cardinality(shown) = Len(listed)
                /\ \A k \in 1 .. Len(listed) :
                      /\ listed[k].path_penetration = RatMul(Hundred, PathPen(listed[k].rels))
                      /\ Len(listed[k].nodes) = Len(listed[k].rels) + 1
                /\ \A k \in 1 .. Len(listed), l \in 1 .. Len(listed) :
                      k < l => RatLeq(listed[l].path_penetration, listed[k].path_penetration)
                /\ \A p \in P \ shown : \A k \in 1 .. Len(listed) :
                      RatLeq(RatMul(Hundred, PathPen(p)), listed[k].path_penetration)

\* C7 witness: an item with two paths of different penetration cut to the best.
C7_Witness ==
    /\ PathsFound
    /\ resp.max_paths = 1
    /\ \E i \in 1 .. Len(resp.body.items) :
          LET P == PathsTo(resp.entity_id, resp.depth, resp.body.items[i].id)
          IN  /\ Cardinality(P) >= 2
              /\ \E p \in P, q \in P : RatLess(PathPen(p), PathPen(q))
              /\ Len(resp.body.items[i].paths) = 1

\* C8: a depth above 10 gives a result of depth 10, in which no chain of more
\* than 10 edges counts; a depth of 0 or less gives the root and no items.
C8_DepthClamped ==
    BasicFound =>
        /\ resp.depth > MaxHops =>
              /\ resp.body \in get_equity_penetration(resp.entity_id, MaxHops)
              /\ \A i \in 1 .. Len(resp.body.items) :
                    resp.body.items[i].penetration =
                        RatMul(Hundred, LookThrough(resp.entity_id, resp.body.items[i].id, MaxHops))
        /\ \A p \in MatchOwnsPaths(resp.entity_id, resp.depth) : Len(p) <= MaxHops
        /\ resp.depth <= 0 =>
              resp.body = [root |-> [id |-> resp.entity_id], items |-> <<>>]

\* C8 witness: depth 11 asked of a root that heads a chain of 11 ownership edges.
C8_Witness ==
    /\ BasicFound
    /\ resp.depth > MaxHops
    /\ \E n \in entities :
          LookThrough(resp.entity_id, n, resp.depth) #
              LookThrough(resp.entity_id, n, MaxHops)

(***************************************************************************)
(* Properties of the rule evaluation.                                      *)
(***************************************************************************)
RiskResp == risk_resp.endpoint = "risk"
KbRules(kind) == Get(Get(KB_CACHE, "rules", EmptyDict), kind, <<>>)
KbList(name) == Get(Get(KB_CACHE, "lists", EmptyDict), name, <<>>)
BeneficiaryName == Get(risk_resp.payload, "beneficiary_name", <<>>)

SameLetter(c, d) ==
    c = d \/ <<c, d>> \in {<<"a", "A">>, <<"A", "a">>, <<"b", "B">>, <<"B", "b">>}
EqualIgnoringCase(a, b) ==
    Len(a) = Len(b) /\ \A i \in DOMAIN a : SameLetter(a[i], b[i])
NameMatches ==
    /\ BeneficiaryName # <<>>
    /\ \E s \in Range(KbList("sanctioned_parties")) : EqualIgnoringCase(BeneficiaryName, s)
SanctionsCondition(rule) ==
    Get(Get(rule, "match", EmptyDict), "counterparty_name_in_sanctions", FALSE)
\* the hundredths of a point nearest to x
NearestHundredths(x) ==
    {y \in (x - 5) .. (x + 5) : y % 10 = 0}
TriggeredAndLabelled(rule) ==
    /\ rule.id \in Range(risk_resp.result.deterministic_triggers)
    /\ "category" \in DOMAIN rule => rule.category \in Range(risk_resp.result.labels)

\* C9 as stated: when beneficiary_name matches a sanctioned party without
\* regard to case, every deterministic rule with the sanctions condition has
\* its id in deterministic_triggers, its category in labels, and the returned
\* score is at least its effect.score.
C9_ScoreAtLeastEffectScore ==
    (RiskResp /\ NameMatches) =>
        \A i \in DOMAIN KbRules("deterministic") :
            LET rule == KbRules("deterministic")[i]
            IN  SanctionsCondition(rule) =>
                    /\ TriggeredAndLabelled(rule)
                    /\ risk_resp.result.score >= rule.effect.score

\* C9 amended: the same, with the returned score at least effect.score
\* rounded to two decimals (the result's score is rounded on return).
C9_ScoreAtLeastRoundedEffectScore ==
    (RiskResp /\ NameMatches) =>
        \A i \in DOMAIN KbRules("deterministic") :
            LET rule == KbRules("deterministic")[i]
            IN  SanctionsCondition(rule) =>
                    /\ TriggeredAndLabelled(rule)
                    /\ \E y \in NearestHundredths(rule.effect.score) :
                          risk_resp.result.score >= y

\* a name that differs in case from the list entry it matches, two rules
\* with the condition, and a weighted rule that passed in the same call
C9_Witness ==
    /\ RiskResp /\ NameMatches
    /\ BeneficiaryName \notin Range(KbList("sanctioned_parties"))
    /\ KbRules("deterministic") = <<WatchRule, SanctionRule, PepRule>>
    /\ risk_resp.result.deterministic_triggers = <<"watchlist_hit", "sanctions_hit">>
    /\ "sanctions" \in Range(risk_resp.result.labels)
    /\ risk_resp.result.score = 100000
    /\ \E i \in DOMAIN risk_resp.result.weighted_details :
          risk_resp.result.weighted_details[i].passed

\* the flags as they stand when weighted rule i is evaluated: small_amount and
\* total_volume are those of the latest rule up to i that carries the hint
CurrentFlags(i) ==
    LET base == TransferFlags(risk_resp.transfers, Get(KB_CACHE, "lists", EmptyDict))
        hinted == {j \in 1 .. i :
                     "small_amount_cny_max"
                        \in DOMAIN Get(KbRules("weighted")[j], "hints", EmptyDict)}
    IN  IF hinted = {} THEN base
        ELSE HintedFlags(base, KbRules("weighted")[CHOOSE j \in hinted : \A k \in hinted : k <= j],
                         Amounts(risk_resp.transfers))

RECURSIVE SumWeights(_, _)
SumWeights(weights, F) ==
    IF F = {} THEN 0
    ELSE LET f == CHOOSE x \in F : TRUE
         IN  weights[f] + SumWeights(weights, F \ {f})

\* C10: in the record of every weighted rule, the matched features are
\* exactly the features of the rule's weight map that are currently true,
\* raw_score is the sum of their weights, and passed holds iff raw_score >=
\* threshold: a sum equal to the threshold passes, one unit below does not.
C10_ThresholdBoundary ==
    RiskResp =>
        /\ Len(risk_resp.result.weighted_details) = Len(KbRules("weighted"))
        /\ \A i \in DOMAIN KbRules("weighted") :
              LET w_rule == KbRules("weighted")[i]
                  d == risk_resp.result.weighted_details[i]
                  true_in_map == {f \in DOMAIN w_rule.weights :
                                    f \in Range(FeatureOrder) /\ CurrentFlags(i)[f]}
              IN  /\ Range(d.matched_features) = true_in_map
                  /\ Len(d.matched_features) = Cardinality(true_in_map)
                  /\ d.raw_score = SumWeights(w_rule.weights, true_in_map)
                  /\ d.threshold = Get(w_rule, "threshold", DefaultThreshold)
                  /\ d.passed <=> d.raw_score >= d.threshold
                  /\ d.raw_score = d.threshold => d.passed
                  /\ d.raw_score = d.threshold - 1 => ~d.passed

\* one call in which a rule passes with its sum on the threshold and another
\* fails one unit below it
C10_Witness ==
    /\ RiskResp
    /\ \E i \in DOMAIN risk_resp.result.weighted_details :
          LET d == risk_resp.result.weighted_details[i]
          IN  d.raw_score = d.threshold /\ d.passed /\ Len(d.matched_features) >= 1
    /\ \E i \in DOMAIN risk_resp.result.weighted_details :
          LET d == risk_resp.result.weighted_details[i]
          IN  d.raw_score = d.threshold - 1 /\ ~d.passed /\ Len(d.matched_features) >= 2

WeightedDetails == risk_resp.result.weighted_details
PassedRules == {i \in DOMAIN WeightedDetails : WeightedDetails[i].passed}
NoDuplicates(s) == \A i, j \in DOMAIN s : s[i] = s[j] => i = j
IsPrefix(s, t) == Len(s) <= Len(t) /\ \A i \in DOMAIN s : s[i] = t[i]
SetMax(S) == CHOOSE x \in S : \A y \in S : y <= x
\* score, triggers and labels as the deterministic phase leaves them
AfterDeterministic ==
    DeterministicPhase([score |-> 0, det_triggers |-> <<>>, labels |-> <<>>],
                       KbRules("deterministic"),
                       Sanctioned(Get(KB_CACHE, "lists", EmptyDict), BeneficiaryName))
PassedCategories ==
    {KbRules("weighted")[i].category :
        i \in {j \in PassedRules : "category" \in DOMAIN KbRules("weighted")[j]}}

\* C11: weighted_details holds one record per weighted rule, in KB order, for
\* passing and failing rules alike; labels are the deterministic labels
\* followed by the categories of the passing rules only, matched_features is
\* the union of the passing rules' matched features only, and score is the
\* largest of the deterministic score and raw_score x 100 of the passing
\* rules: a failing rule changes none of score, labels or matched_features.
C11_WeightedPhaseEffects ==
    RiskResp =>
        /\ Len(WeightedDetails) = Len(KbRules("weighted"))
        /\ \A i \in DOMAIN WeightedDetails :
              /\ WeightedDetails[i].id = Get(KbRules("weighted")[i], "id", NoneStr)
              /\ WeightedDetails[i].category
                    = Get(KbRules("weighted")[i], "category", NoneStr)
        /\ IsPrefix(AfterDeterministic.labels, risk_resp.result.labels)
        /\ NoDuplicates(risk_resp.result.labels)
        /\ Range(risk_resp.result.labels)
              = Range(AfterDeterministic.labels) \cup PassedCategories
        /\ NoDuplicates(risk_resp.result.matched_features)
        /\ Range(risk_resp.result.matched_features)
              = UNION {Range(WeightedDetails[i].matched_features) : i \in PassedRules}
        /\ risk_resp.result.score
              = Round2(SetMax({AfterDeterministic.score}
                                \cup {WeightedDetails[i].raw_score * 100 : i \in PassedRules}))
        /\ PassedRules = {} =>
              /\ risk_resp.result.labels = AfterDeterministic.labels
              /\ risk_resp.result.matched_features = <<>>
              /\ risk_resp.result.score = Round2(AfterDeterministic.score)

\* a call with three weighted rules where one passes and raises the score and
\* a failing one has matched features and a category that stay out
C11_Witness ==
    /\ RiskResp
    /\ Len(WeightedDetails) = 3
    /\ \E i \in PassedRules :
          risk_resp.result.score = WeightedDetails[i].raw_score * 100
    /\ \E i \in DOMAIN WeightedDetails :
          /\ ~WeightedDetails[i].passed
          /\ WeightedDetails[i].category # NoneStr
          /\ WeightedDetails[i].category \notin Range(risk_resp.result.labels)
          /\ \E f \in Range(WeightedDetails[i].matched_features) :
                f \notin Range(risk_resp.result.matched_features)

\* the transfer list of the call, read as the claim reads it
Given(field) == {risk_resp.transfers[i][field] : i \in DOMAIN risk_resp.transfers}
SourceAccounts == Given("from") \ {NULL, 0}
DestinationAccounts == Given("to") \ {NULL, 0}
Dates == Given("date") \ {NULL, 0}
DestinationRegions == Given("to_region") \ {""}
GivenAmounts == {i \in DOMAIN risk_resp.transfers : risk_resp.transfers[i].amount_cny # NULL}
CountedAmounts == {i \in GivenAmounts : risk_resp.transfers[i].amount_cny # 0}
RECURSIVE SumAmounts(_)
SumAmounts(I) ==
    IF I = {} THEN 0
    ELSE LET i == CHOOSE x \in I : TRUE
         IN  risk_resp.transfers[i].amount_cny + SumAmounts(I \ {i})
HighRiskRegions == Range(KbList("high_risk_regions"))
RuleFlags(i) ==
    FeatureFlagsAt(risk_resp.transfers, Get(KB_CACHE, "lists", EmptyDict),
                   KbRules("weighted"), i)
Ceiling(i) == KbRules("weighted")[i].hints.small_amount_cny_max
HasCeiling(i) ==
    "small_amount_cny_max" \in DOMAIN Get(KbRules("weighted")[i], "hints", EmptyDict)
\* the six features that do not depend on a hint
PlainFeatures(i) ==
    /\ RuleFlags(i).multi_accounts <=> Cardinality(SourceAccounts) >= 3
    /\ RuleFlags(i).same_beneficiary <=> Cardinality(DestinationAccounts) = 1
    /\ RuleFlags(i).consecutive_days <=> Cardinality(Dates) >= 5
    /\ RuleFlags(i).cross_border <=> Cardinality(DestinationRegions) > 1
    /\ RuleFlags(i).frequency <=> Len(risk_resp.transfers) >= 3

RecordAlone(i) ==
    LET st0 == [score |-> 0, labels |-> <<>>, matched_features |-> <<>>,
                weighted_details |-> <<>>,
                flags |-> TransferFlags(risk_resp.transfers,
                                        Get(KB_CACHE, "lists", EmptyDict))]
    IN  WeightedStep(st0, KbRules("weighted")[i],
                     Amounts(risk_resp.transfers)).weighted_details[1]

\* C13: the record of every weighted rule (matched_features, raw_score,
\* passed) is the one the rule gets from the transfer list, the KB lists and
\* its own document alone, whichever weighted rules precede it.
C13_RecordIndependentOfOtherRules ==
    RiskResp =>
        \A i \in DOMAIN KbRules("weighted") :
            /\ WeightedDetails[i].matched_features = RecordAlone(i).matched_features
            /\ WeightedDetails[i].raw_score = RecordAlone(i).raw_score
            /\ WeightedDetails[i].passed = RecordAlone(i).passed

\* C14: two calls with the same payload and the same KB snapshot return the
\* same score, labels and explanation.
C14_SamePayloadSameResult ==
    (/\ RiskResp
     /\ risk_prev # NoResp
     /\ risk_prev.payload = risk_resp.payload
     /\ risk_prev.kb = KB_CACHE)
        => /\ risk_prev.result.score = risk_resp.result.score
           /\ risk_prev.result.labels = risk_resp.result.labels
           /\ risk_prev.result.explanation = risk_resp.result.explanation


(***************************************************************************)
(* The hybrid resolver (app/services/graph_rag.py) over the nodes that     *)
(* search_entities_fuzzy reads.  A string is the sequence of its           *)
(* characters; <<>> also stands for a missing (None) string.  Scores are   *)
(* counted in 1/1600ths, so that 0.6 x semantic, 0.4 x fuzzy, the bonuses  *)
(* and composite / 1.6 are all whole numbers.                              *)
(***************************************************************************)
ScoreUnit == 1600
MaxTopK == 3

Alphabet == <<" ", "0", "1", "2", "3", "4", "9", "A", "H", "K",
              "a", "b", "c", "e", "h", "i", "k", "l", "n", "o", "s", "u", "z">>
CharCode(c) == CHOOSE i \in DOMAIN Alphabet : Alphabet[i] = c

\* str.lower()
LowerChar(c) == CASE c = "A" -> "a" [] c = "B" -> "b" [] c = "C" -> "c" [] c = "D" -> "d"
                  [] c = "E" -> "e" [] c = "F" -> "f" [] c = "G" -> "g" [] c = "H" -> "h"
                  [] c = "I" -> "i" [] c = "J" -> "j" [] c = "K" -> "k" [] c = "L" -> "l"
                  [] c = "M" -> "m" [] c = "N" -> "n" [] c = "O" -> "o" [] c = "P" -> "p"
                  [] c = "Q" -> "q" [] c = "R" -> "r" [] c = "S" -> "s" [] c = "T" -> "t"
                  [] c = "U" -> "u" [] c = "V" -> "v" [] c = "W" -> "w" [] c = "X" -> "x"
                  [] c = "Y" -> "y" [] c = "Z" -> "z"
                  [] OTHER -> c
Lower(s) == [i \in DOMAIN s |-> LowerChar(s[i])]

RECURSIVE StripLeft(_)
StripLeft(s) == IF s # <<>> /\ Head(s) = " " THEN StripLeft(Tail(s)) ELSE s
RECURSIVE StripRight(_)
StripRight(s) == IF s # <<>> /\ s[Len(s)] = " "
                 THEN StripRight(SubSeq(s, 1, Len(s) - 1)) ELSE s
\* str.strip()
Strip(s) == StripRight(StripLeft(s))

\* t in s
Contains(s, t) == \E i \in 0 .. (Len(s) - Len(t)) : SubSeq(s, i + 1, i + Len(t)) = t
\* s.startswith(t)
StartsWith(s, t) == Len(t) <= Len(s) /\ SubSeq(s, 1, Len(t)) = t

\* s < t for Python strings
RECURSIVE StrLess(_, _)
StrLess(s, t) ==
    IF t = <<>> THEN FALSE
    ELSE IF s = <<>> THEN TRUE
    ELSE IF Head(s) # Head(t) THEN CharCode(Head(s)) < CharCode(Head(t))
    ELSE StrLess(Tail(s), Tail(t))

\* property values as the store holds them: maps are kept as JSON strings
PyNone == [py |-> "None"]
PyDict(d) == [py |-> "dict", d |-> d]
JsonStr(d) == [py |-> "str", parses_to |-> PyDict(d)]
BrokenJsonStr == [py |-> "str", parses_to |-> PyNone]
IsDict(v) == v.py = "dict"

\* _parse(v): a JSON-looking string becomes what it parses to, or None
ParseJson(v) == IF v.py = "str" THEN v.parses_to ELSE v

DigitChar(n) == CASE n = 1 -> "1" [] n = 2 -> "2" [] n = 3 -> "3" [] n = 4 -> "4"
                  [] OTHER -> "9"
\* the id property of the node of entity n
NodeId(n) == <<"e", DigitChar(n)>>

ExampleNodes ==
    (1 :> [name |-> <<"a", "l">>, type |-> <<"p", "e", "r", "s", "o", "n">>,
           description |-> <<>>,
           basic_info |-> JsonStr([birth_date |-> <<"9", "0">>,
                                   residential_address |-> <<"H", "K", " ", "1">>]),
           id_info |-> JsonStr([id_no |-> <<"a", "9", "0", "b">>]),
           geo_profile |-> JsonStr([countries_recent_6m |-> <<<<"c", "n">>>>])])
    @@ (2 :> [name |-> <<"A", "l", "i">>, type |-> <<"P", "e", "r", "s", "o", "n">>,
              description |-> <<>>,
              basic_info |-> JsonStr([birth_date |-> <<"9", "1">>,
                                      residential_address |-> <<>>]),
              id_info |-> JsonStr([id_no |-> <<"3", "9", "0", "1">>]),
              geo_profile |-> JsonStr([countries_recent_6m |->
                                         <<<<"H", "K">>, <<"u", "s">>, <<"n", "z">>>>])])
    @@ (3 :> [name |-> <<"a", "l", " ", "c", "o">>, type |-> <<"C", "o">>,
              description |-> <<>>,
              basic_info |-> JsonStr([birth_date |-> <<"9", "0">>,
                                      residential_address |-> <<"h", "k">>]),
              id_info |-> PyNone,
              geo_profile |-> PyNone])
    @@ (4 :> [name |-> <<"b", "a", "l">>, type |-> <<"p", "e", "r", "s", "o", "n">>,
              description |-> <<"a", "l", "i", "a", "s">>,
              basic_info |-> BrokenJsonStr,
              id_info |-> JsonStr([id_no |-> <<"1", "2">>]),
              geo_profile |-> JsonStr([countries_recent_6m |-> <<<<"u", "s">>>>])])

(***************************************************************************)
(* search_entities_fuzzy and get_layers.                                   *)
(***************************************************************************)
\* the CASE of the Cypher query: 4 exact, 3 prefix, 2 substring, 1 description
Tier(n, q) ==
    LET eid == Lower(NodeId(n))
        ename == Lower(nodes[n].name)
        edesc == Lower(nodes[n].description)
        ql == Lower(q)
    IN  IF eid = ql \/ ename = ql THEN 4
        ELSE IF StartsWith(eid, ql) \/ StartsWith(ename, ql) THEN 3
        ELSE IF StartsWith(edesc, ql) THEN 2
        ELSE IF Contains(eid, ql) \/ Contains(ename, ql) THEN 2
        ELSE IF Contains(edesc, ql) THEN 1
        ELSE 0

\* WHERE eid CONTAINS q OR ename CONTAINS q OR edesc CONTAINS q
FuzzyMatches(n, q) ==
    \/ Contains(Lower(NodeId(n)), Lower(q))
    \/ Contains(Lower(nodes[n].name), Lower(q))
    \/ Contains(Lower(nodes[n].description), Lower(q))

PersonType == <<"p", "e", "r", "s", "o", "n">>

\* a returned row; the JSON fields of a person are parsed
FuzzyRow(n, q) ==
    LET person == Lower(nodes[n].type) = PersonType
    IN  [id |-> NodeId(n), name |-> nodes[n].name, type |-> nodes[n].type,
         description |-> nodes[n].description,
         basic_info |-> IF person THEN ParseJson(nodes[n].basic_info)
                        ELSE nodes[n].basic_info,
         id_info |-> IF person THEN ParseJson(nodes[n].id_info) ELSE nodes[n].id_info,
         geo_profile |-> IF person THEN ParseJson(nodes[n].geo_profile)
                         ELSE nodes[n].geo_profile,
         score |-> Tier(n, q)]

\* sort_key: (-score, len(name), name.lower(), id)
SortKeyLess(r1, r2) ==
    IF r1.score # r2.score THEN r1.score > r2.score
    ELSE IF Len(r1.name) # Len(r2.name) THEN Len(r1.name) < Len(r2.name)
    ELSE IF Lower(r1.name) # Lower(r2.name) THEN StrLess(Lower(r1.name), Lower(r2.name))
    ELSE StrLess(r1.id, r2.id)

RECURSIVE SortRows(_)
SortRows(rows) ==
    IF rows = {} THEN <<>>
    ELSE LET first == CHOOSE r \in rows : \A o \in rows \ {r} : SortKeyLess(r, o)
         IN  <<first>> \o SortRows(rows \ {first})

\* search_entities_fuzzy(q, limit); a failed query is answered with []
search_entities_fuzzy(q, limit, graph_up) ==
    LET q_norm == Strip(q)
    IN  IF q_norm = <<>> \/ ~graph_up THEN <<>>
        ELSE PyPrefix(SortRows({FuzzyRow(n, q_norm) :
                                  n \in {m \in DOMAIN nodes : FuzzyMatches(m, q_norm)}}),
                      limit)

\* {id, name, type} of a node
NodeInfo(n) == [id |-> NodeId(n), name |-> nodes[n].name, type |-> nodes[n].type]

\* get_layers(root_id, depth): the root and the collected OWNS paths of at
\* most depth relationships, each with its nodes and its relationships
get_layers(root_id, depth) ==
    LET n == CHOOSE m \in DOMAIN nodes : NodeId(m) = root_id
    IN  [root |-> NodeInfo(n),
         layers |-> {[nodes |-> <<NodeInfo(n)>> \o [i \in 1 .. Len(p) |-> NodeInfo(p[i].to)],
                      rels |-> [i \in 1 .. Len(p) |->
                                  [from |-> NodeId(p[i].from), to |-> NodeId(p[i].to),
                                   stake |-> p[i].stake]]] :
                       p \in MatchOwnsPaths(n, depth)}]

(***************************************************************************)
(* The embedding provider.                                                 *)
(***************************************************************************)
ISqrt(x) == CHOOSE r \in 0 .. x : r * r = x
Dot(a, b) == SeqSum([i \in 1 .. (IF Len(a) < Len(b) THEN Len(a) ELSE Len(b)) |->
                        a[i] * b[i]])
\* _cosine(a, b), in score units
Cosine(a, b) ==
    IF a = <<>> \/ b = <<>> THEN 0
    ELSE LET na == ISqrt(Dot(a, a))
             nb == ISqrt(Dot(b, b))
         IN  IF na = 0 \/ nb = 0 THEN 0
             ELSE IF Dot(a, b) >= 0 THEN (Dot(a, b) * ScoreUnit) \div (na * nb)
             ELSE -(((-Dot(a, b)) * ScoreUnit) \div (na * nb))

QueryVector == <<1, 0>>
\* the vector the provider gives the i-th candidate text
CandidateVector(pattern, i) ==
    CASE pattern = "same" -> <<2, 0>>
      [] pattern = "mixed" -> IF i % 2 = 1 THEN <<0, 1>> ELSE <<1, 0>>
      [] pattern = "opposite" -> IF i = 1 THEN <<-1, 0>> ELSE <<0, 0>>
      [] OTHER -> <<>>

\* what get_llm_client().embed(texts) does for n texts: "no_client" and
\* "raises" raise, "empty" and "short" return a list of the wrong length
EmbedOutcomes == {"no_client", "raises", "empty", "short",
                  "same", "mixed", "opposite", "no_vectors"}
EmbedFailed(outcome) == outcome \in {"no_client", "raises"}
Embed(outcome, n) ==
    CASE outcome = "empty" -> <<>>
      [] outcome = "short" -> [i \in 1 .. (n - 1) |-> QueryVector]
      [] OTHER -> [i \in 1 .. n |-> IF i = 1 THEN QueryVector
                                      ELSE CandidateVector(outcome, i - 1)]

(***************************************************************************)
(* resolve_graphrag.                                                       *)
(***************************************************************************)
PyList(items) == [py |-> "list", items |-> items]
IsList(v) == v.py = "list"

DobExactBonus == 480         \* 0.3
DobPartialBonus == 240       \* 0.15
AddressKeywordBonus == 160   \* 0.1
AddressBonusCap == 480       \* 0.3
MaxPossible == 16            \* max_possible = 1.6, in tenths
SubgraphCount == 2
MinFuzzyLimit == 10

\* min(1.0, raw / 4.0)
FuzzyNorm(score) == Min(ScoreUnit, (score * ScoreUnit) \div 4)

SemSims_wrongLengthUsed(use_semantic, outcome, n) ==
    IF ~use_semantic \/ n = 0 \/ EmbedFailed(outcome) THEN PyNone
    ELSE LET embs == Embed(outcome, n + 1)
         IN  PyList([i \in 1 .. n |->
                        IF i + 1 <= Len(embs) THEN Cosine(embs[1], embs[i + 1]) ELSE 0])

\* sem_sims: the cosines of the candidates, or None when the embeddings
\* are not asked for or cannot be used
SemSims(use_semantic, outcome, n) ==
    IF ~use_semantic \/ n = 0 \/ EmbedFailed(outcome) THEN PyNone
    ELSE LET embs == Embed(outcome, n + 1)
         IN  IF embs # <<>> /\ Len(embs) = n + 1
             THEN PyList([i \in 1 .. n |-> Cosine(embs[1], embs[i + 1])])
             ELSE PyNone

\* (sim + 1.0) / 2.0
SemScore(sem_sims, idx) ==
    IF IsList(sem_sims) /\ idx <= Len(sem_sims.items)
    THEN (sem_sims.items[idx] + ScoreUnit) \div 2
    ELSE 0

\* the birth-date bonus and what it records in matched_fields
DobBonus_both(c, birth_date) ==
    LET exact == IsDict(c.basic_info) /\ c.basic_info.d.birth_date = birth_date
        partial == IsDict(c.id_info)
                     /\ \E k \in DOMAIN c.id_info.d : Contains(c.id_info.d[k], birth_date)
    IN  IF birth_date = <<>> THEN [bonus |-> 0, fields |-> <<>>]
        ELSE [bonus |-> (IF exact THEN DobExactBonus ELSE 0)
                          + (IF partial THEN DobPartialBonus ELSE 0),
              fields |-> (IF exact THEN <<<<"birth_date">>>> ELSE <<>>)
                           \o (IF partial THEN <<<<"id_info_match">>>> ELSE <<>>)]
DobBonus(c, birth_date) ==
    LET exact == IsDict(c.basic_info) /\ c.basic_info.d.birth_date = birth_date
        partial == IsDict(c.id_info)
                     /\ \E k \in DOMAIN c.id_info.d : Contains(c.id_info.d[k], birth_date)
    IN  IF birth_date = <<>> THEN [bonus |-> 0, fields |-> <<>>]
        ELSE IF exact THEN [bonus |-> DobExactBonus, fields |-> <<<<"birth_date">>>>]
        ELSE IF partial THEN [bonus |-> DobPartialBonus, fields |-> <<<<"id_info_match">>>>]
        ELSE [bonus |-> 0, fields |-> <<>>]

\* kws = [str(x).strip().lower() for x in extra["address_keywords"] if x]
Keywords(extra) ==
    IF IsDict(extra) /\ IsList(extra.d.address_keywords)
    THEN LET given == SelectSeq(extra.d.address_keywords.items, LAMBDA x : x # <<>>)
         IN  [i \in DOMAIN given |-> Lower(Strip(given[i]))]
    ELSE <<>>

RECURSIVE SortStrings(_)
SortStrings(S) ==
    IF S = {} THEN <<>>
    ELSE LET first == CHOOSE s \in S : \A t \in S \ {s} : StrLess(s, t)
         IN  <<first>> \o SortStrings(S \ {first})

\* matched_addr: the keywords found, each with the field it was found in
MatchedAddr_perOccurrence(c, kws) ==
    LET ra == IF IsDict(c.basic_info) THEN Lower(c.basic_info.d.residential_address)
              ELSE <<>>
        geo_countries == IF IsDict(c.geo_profile)
                         THEN [i \in DOMAIN c.geo_profile.d.countries_recent_6m |->
                                 Lower(c.geo_profile.d.countries_recent_6m[i])]
                         ELSE <<>>
        found == SelectSeq(kws, LAMBDA kw :
                     kw # <<>> /\ (Contains(ra, kw)
                                     \/ \E i \in DOMAIN geo_countries :
                                          Contains(geo_countries[i], kw)))
    IN  [i \in DOMAIN found |->
            [kw |-> found[i],
             src |-> IF Contains(ra, found[i]) THEN "basic_info" ELSE "geo_profile"]]
MatchedAddr(c, kws) ==
    LET ra == IF IsDict(c.basic_info) THEN Lower(c.basic_info.d.residential_address)
              ELSE <<>>
        geo_countries == IF IsDict(c.geo_profile)
                         THEN [i \in DOMAIN c.geo_profile.d.countries_recent_6m |->
                                 Lower(c.geo_profile.d.countries_recent_6m[i])]
                         ELSE <<>>
        found == {kw \in Range(kws) :
                     kw # <<>> /\ (Contains(ra, kw)
                                     \/ \E i \in DOMAIN geo_countries :
                                          Contains(geo_countries[i], kw))}
        keys == SortStrings(found)
    IN  [i \in DOMAIN keys |->
            [kw |-> keys[i],
             src |-> IF Contains(ra, keys[i]) THEN "basic_info" ELSE "geo_profile"]]

\* the address bonus and what it records in matched_fields
AddressBonus(c, extra) ==
    LET matched_addr == MatchedAddr(c, Keywords(extra))
    IN  [bonus |-> Min(AddressBonusCap, AddressKeywordBonus * Len(matched_addr)),
         fields |-> [i \in DOMAIN matched_addr |->
                        <<"address", matched_addr[i].kw, matched_addr[i].src>>]]

\* 0.6 * sem_score + 0.4 * fuzzy_score, or 1.0 * fuzzy_score
Weighted_semanticOnly(sem_used, sem_score, fuzzy_score) ==
    IF sem_used THEN sem_score ELSE fuzzy_score
Weighted(sem_used, sem_score, fuzzy_score) ==
    IF sem_used THEN (6 * sem_score) \div 10 + (4 * fuzzy_score) \div 10
    ELSE fuzzy_score

\* final / 1.6, clamped to [0, 1]
Normalized(final) == Max(0, Min(ScoreUnit, (final * 10) \div MaxPossible))

\* the record of one candidate
Candidate(c, idx, sem_sims, birth_date, extra) ==
    LET fuzzy_score == FuzzyNorm(c.score)
        sem_score == SemScore(sem_sims, idx)
        dob == DobBonus(c, birth_date)
        addr == AddressBonus(c, extra)
        final == Weighted(IsList(sem_sims), sem_score, fuzzy_score) + dob.bonus + addr.bonus
    IN  [node_id |-> c.id,
         labels |-> IF Lower(c.type) = PersonType
                    THEN <<<<"P", "e", "r", "s", "o", "n">>>> ELSE <<c.type>>,
         name |-> c.name,
         score |-> Min(ScoreUnit, final),
         fuzzy_score |-> fuzzy_score,
         semantic_score |-> sem_score,
         composite_score |-> final,
         normalized_score |-> Normalized(final),
         matched_fields |-> dob.fields \o addr.fields,
         raw |-> c]

\* does r1 come before r2 under key (normalized_score, composite_score), reversed
RankedBefore(r1, r2) ==
    \/ r1.normalized_score > r2.normalized_score
    \/ r1.normalized_score = r2.normalized_score /\ r1.composite_score > r2.composite_score

\* sorted(results, key = ..., reverse = True): stable
RECURSIVE SortedReverse_ascending(_)
SortedReverse_ascending(results) ==
    IF results = <<>> THEN <<>>
    ELSE LET i == CHOOSE j \in DOMAIN results :
                     /\ \A k \in DOMAIN results : ~RankedBefore(results[j], results[k])
                     /\ \A k \in 1 .. (j - 1) : RankedBefore(results[k], results[j])
         IN  <<results[i]>> \o SortedReverse_ascending(
                 SubSeq(results, 1, i - 1) \o SubSeq(results, i + 1, Len(results)))
RECURSIVE SortedReverse(_)
SortedReverse(results) ==
    IF results = <<>> THEN <<>>
    ELSE LET i == CHOOSE j \in DOMAIN results :
                     /\ \A k \in DOMAIN results : ~RankedBefore(results[k], results[j])
                     /\ \A k \in 1 .. (j - 1) : RankedBefore(results[j], results[k])
         IN  <<results[i]>> \o SortedReverse(
                 SubSeq(results, 1, i - 1) \o SubSeq(results, i + 1, Len(results)))

\* the subgraphs of the first min(2, len(results)) results; None where
\* get_layers raised
Subgraphs_allResults(results, layers_down) ==
    LET top == results
    IN  [nid \in {top[i].node_id : i \in DOMAIN top} |->
            IF \E i \in DOMAIN top : top[i].node_id = nid /\ i \in layers_down
            THEN PyNone
            ELSE PyDict(get_layers(nid, 1))]
Subgraphs(results, layers_down) ==
    LET top == PyPrefix(results, Min(SubgraphCount, Len(results)))
    IN  [nid \in {top[i].node_id : i \in DOMAIN top} |->
            IF \E i \in DOMAIN top : top[i].node_id = nid /\ i \in layers_down
            THEN PyNone
            ELSE PyDict(get_layers(nid, 1))]

\* env: whether the graph store answers, what the embedding provider does,
\* and for which of the fetched subgraphs get_layers raises
ResolveGraphrag(req, env) ==
    LET q_text == Strip(req.name)
        candidates == IF q_text # <<>>
                      THEN search_entities_fuzzy(q_text, Max(MinFuzzyLimit, req.top_k * 3),
                                                 env.graph_up)
                      ELSE <<>>
        query == [name |-> req.name, birth_date |-> req.birth_date, extra |-> req.extra,
                  use_semantic |-> req.use_semantic]
    IN  IF candidates = <<>> THEN [query |-> query, candidates |-> <<>>]
        ELSE LET sem_sims == SemSims(req.use_semantic, env.embed, Len(candidates))
                 results == PyPrefix(
                                SortedReverse([idx \in DOMAIN candidates |->
                                    Candidate(candidates[idx], idx, sem_sims,
                                              req.birth_date, req.extra)]),
                                req.top_k)
             IN  [query |-> query, candidates |-> results,
                  subgraphs |-> Subgraphs(results, env.layers_down)]

(***************************************************************************)
(* The resolver as a state machine: POST /entities/resolve-graphrag over   *)
(* the example nodes.                                                      *)
(***************************************************************************)
DefaultTopK == 5

QueryNames == {<<>>, <<"a", "l">>, <<" ", "A", "L", " ">>, <<"z", "z">>}
BirthDates == {<<>>, <<"9", "0">>, <<"9", "1">>}
KeywordLists ==
    {<<>>,
     <<<<"H", "K">>>>,
     <<<<"h", "k">>, <<" ", "H", "K", " ">>>>,
     <<<<"h", "k">>, <<"1">>>>,
     <<<<"h", "k">>, <<"u", "s">>, <<"n", "z">>, <<"h">>>>,
     <<<<>>, <<" ">>, <<"z", "z">>>>}
ExtraInputs ==
    {PyNone, PyDict([address_keywords |-> PyNone])}
      \cup {PyDict([address_keywords |-> PyList(kws)]) : kws \in KeywordLists}
TopKInputs == (-1 .. MaxTopK) \cup {DefaultTopK}
ResolveRequests ==
    [name : QueryNames, birth_date : BirthDates, extra : ExtraInputs,
     use_semantic : BOOLEAN, top_k : TopKInputs]
\* with the graph store down neither the provider nor get_layers is reached
ResolveEnvs(req) ==
    {[graph_up |-> FALSE, embed |-> "unused", layers_down |-> {}]}
      \cup [graph_up : {TRUE},
            embed : IF req.use_semantic THEN EmbedOutcomes ELSE {"unused"},
            layers_down : SUBSET (1 .. SubgraphCount)]

InitRag ==
    /\ entities = DOMAIN ExampleNodes
    /\ owns = ExampleGraph.owns
    /\ nodes = ExampleNodes
    /\ resp = NoResp
    /\ match = NoMatch
    /\ transactions = <<>>
    /\ kb_files = ShippedKB
    /\ KB_CACHE = EmptyDict
    /\ risk_resp = NoResp
    /\ risk_prev = NoResp
    /\ rag_resp = NoResp
    /\ NoAnalysis
    /\ NoThreads

\* api_resolve_graphrag: one call of resolve_graphrag
resolve_graphrag(req, env) ==
    /\ rag_resp = NoResp
    /\ rag_resp' = [endpoint |-> "resolve", request |-> req, env |-> env,
                    result |-> ResolveGraphrag(req, env)]
    /\ UNCHANGED <<agg_vars, thread_vars, graph_vars, nodes, resp, match, risk_vars>>

\* the answer leaves the service
return_resolve ==
    /\ rag_resp # NoResp
    /\ rag_resp' = NoResp
    /\ UNCHANGED <<agg_vars, thread_vars, graph_vars, nodes, resp, match, risk_vars>>

NextRag ==
    \/ \E req \in ResolveRequests : \E env \in ResolveEnvs(req) : resolve_graphrag(req, env)
    \/ return_resolve

SpecRag == InitRag /\ [][NextRag]_vars


(***************************************************************************)
(* Claims about the resolver.  Scores are read in 1/1600ths.               *)
(***************************************************************************)
RagResp == rag_resp # NoResp
RagRequest == rag_resp.request
RagCandidates == rag_resp.result.candidates
\* the provider gave no usable embeddings although they were asked for
EmbeddingUnavailable ==
    RagRequest.use_semantic /\ rag_resp.env.embed \in {"no_client", "raises", "empty", "short"}
\* the provider gave one vector per text
SemanticUsed ==
    RagRequest.use_semantic /\ rag_resp.env.embed \in {"same", "mixed", "opposite", "no_vectors"}
\* what is compared between two answers: the candidates in order, with
\* their scores and matched fields, and the subgraphs
Answer(result) ==
    [candidates |-> result.candidates,
     subgraphs |-> IF "subgraphs" \in DOMAIN result THEN result.subgraphs ELSE <<>>]
LexicalOnly(req) == [req EXCEPT !.use_semantic = FALSE]

\* C15: when the embeddings are asked for and the client cannot be obtained,
\* the embed call raises, or it returns a list of the wrong length, the call
\* still answers, with exactly the candidates, scores and order that the same
\* request with use_semantic = false gets, and whichever of these failures
\* happens the answer is the same.
C15_DegradesToLexicalOnly ==
    (RagResp /\ EmbeddingUnavailable) =>
        /\ "candidates" \in DOMAIN rag_resp.result
        /\ Answer(rag_resp.result)
             = Answer(ResolveGraphrag(LexicalOnly(RagRequest),
                                      [rag_resp.env EXCEPT !.embed = "unused"]))
        /\ \A failure \in {"no_client", "raises", "empty", "short"} :
              Answer(ResolveGraphrag(RagRequest, [rag_resp.env EXCEPT !.embed = failure]))
                = Answer(rag_resp.result)
        /\ \A i \in DOMAIN RagCandidates :
              /\ RagCandidates[i].semantic_score = 0
              /\ RagCandidates[i].composite_score >= RagCandidates[i].fuzzy_score

\* a wrong-length answer of the provider, several candidates with bonuses
C15_Witness ==
    /\ RagResp /\ EmbeddingUnavailable
    /\ rag_resp.env.embed = "short"
    /\ Len(RagCandidates) >= 3
    /\ \E i \in DOMAIN RagCandidates : RagCandidates[i].matched_fields # <<>>

\* what the weights give a candidate before the bonuses
PreBonus(r) ==
    IF SemanticUsed THEN (6 * r.semantic_score) \div 10 + (4 * r.fuzzy_score) \div 10
    ELSE r.fuzzy_score
AddressFields(r) == SelectSeq(r.matched_fields, LAMBDA f : f[1] = "address")
DobFields(r) == SelectSeq(r.matched_fields, LAMBDA f : f[1] # "address")
\* the part of the composite score that the birth date accounts for
DobPart(r) ==
    r.composite_score - PreBonus(r)
      - (IF Len(AddressFields(r)) > 3 THEN 3 ELSE Len(AddressFields(r))) * AddressKeywordBonus
ProfileBirthDateIs(raw, bd) ==
    bd # <<>> /\ IsDict(raw.basic_info) /\ raw.basic_info.d.birth_date = bd
IdBlobContains(raw, bd) ==
    bd # <<>> /\ IsDict(raw.id_info)
      /\ \E k \in DOMAIN raw.id_info.d : Contains(raw.id_info.d[k], bd)

\* C16: with a birth_date supplied, a candidate whose structured profile
\* carries exactly that birth date gets +0.3; otherwise one whose identifier
\* blob contains it as a substring gets +0.15; never both; with no birth_date
\* or no match the bonus is 0: it is always one of 0, 0.15, 0.3.
C16_BirthDateBonus ==
    RagResp =>
        \A i \in DOMAIN RagCandidates :
            LET r == RagCandidates[i]
                bd == RagRequest.birth_date
            IN  /\ DobPart(r) \in {0, DobPartialBonus, DobExactBonus}
                /\ DobPart(r) = (IF ProfileBirthDateIs(r.raw, bd) THEN DobExactBonus
                                 ELSE IF IdBlobContains(r.raw, bd) THEN DobPartialBonus
                                 ELSE 0)
                /\ DobFields(r) = (IF ProfileBirthDateIs(r.raw, bd) THEN <<<<"birth_date">>>>
                                   ELSE IF IdBlobContains(r.raw, bd)
                                        THEN <<<<"id_info_match">>>>
                                   ELSE <<>>)

\* one answer with a candidate matching both ways (+0.3 only), one matching
\* in the identifier blob only (+0.15) and one matching neither
C16_Witness ==
    /\ RagResp
    /\ \E i, j, k \in DOMAIN RagCandidates :
          /\ ProfileBirthDateIs(RagCandidates[i].raw, RagRequest.birth_date)
          /\ IdBlobContains(RagCandidates[i].raw, RagRequest.birth_date)
          /\ DobPart(RagCandidates[i]) = DobExactBonus
          /\ ~ProfileBirthDateIs(RagCandidates[j].raw, RagRequest.birth_date)
          /\ DobPart(RagCandidates[j]) = DobPartialBonus
          /\ DobPart(RagCandidates[k]) = 0


\* the part of the composite score that the address keywords account for
AddressPart(r) ==
    r.composite_score - PreBonus(r)
      - (IF DobFields(r) = <<<<"birth_date">>>> THEN DobExactBonus
         ELSE IF DobFields(r) = <<<<"id_info_match">>>> THEN DobPartialBonus
         ELSE 0)
SuppliedKeywords ==
    IF IsDict(RagRequest.extra) /\ IsList(RagRequest.extra.d.address_keywords)
    THEN Range(RagRequest.extra.d.address_keywords.items)
    ELSE {}
ResidentialAddress(raw) ==
    IF IsDict(raw.basic_info) THEN raw.basic_info.d.residential_address ELSE <<>>
RecentCountries(raw) ==
    IF IsDict(raw.geo_profile) THEN Range(raw.geo_profile.d.countries_recent_6m) ELSE {}
\* kw, already in lower case, occurs in the address or a recent country
FoundIgnoringCase(raw, kw) ==
    \/ Contains(Lower(ResidentialAddress(raw)), kw)
    \/ \E ct \in RecentCountries(raw) : Contains(Lower(ct), kw)
CappedBonus(n) ==
    IF n * AddressKeywordBonus > AddressBonusCap THEN AddressBonusCap
    ELSE n * AddressKeywordBonus

\* C17 as stated: the address bonus is 0.1 times the number of distinct
\* supplied keywords found case-insensitively in the residential address or
\* the recent-country strings, capped at 0.3, repeated keywords counting
\* once; with an exact birth date and two distinct keywords found exactly 0.5
\* is added to the pre-bonus score.
C17_AddressBonusOfSuppliedKeywords ==
    RagResp =>
        \A i \in DOMAIN RagCandidates :
            LET r == RagCandidates[i]
                found == {kw \in {Lower(k) : k \in SuppliedKeywords} :
                            FoundIgnoringCase(r.raw, kw)}
            IN  /\ AddressPart(r) = CappedBonus(Cardinality(found))
                /\ (ProfileBirthDateIs(r.raw, RagRequest.birth_date)
                      /\ Cardinality(found) = 2)
                     => r.composite_score - PreBonus(r) = (5 * ScoreUnit) \div 10

\* C17: the same, the supplied keywords being trimmed of surrounding
\* whitespace and lowercased before they are compared, and empty keywords
\* being ignored.
C17_AddressBonusOfTrimmedKeywords ==
    RagResp =>
        \A i \in DOMAIN RagCandidates :
            LET r == RagCandidates[i]
                found == {kw \in {Lower(Strip(k)) : k \in SuppliedKeywords} \ {<<>>} :
                            FoundIgnoringCase(r.raw, kw)}
            IN  /\ AddressPart(r) = CappedBonus(Cardinality(found))
                /\ Len(AddressFields(r)) = Cardinality(found)
                /\ (ProfileBirthDateIs(r.raw, RagRequest.birth_date)
                      /\ Cardinality(found) = 2)
                     => r.composite_score - PreBonus(r) = (5 * ScoreUnit) \div 10

\* an exact birth date with two distinct keywords found (+0.5), beside a
\* candidate for which neither keyword is found
C17_Witness ==
    /\ RagResp
    /\ Cardinality(SuppliedKeywords) = 2
    /\ \E i, j \in DOMAIN RagCandidates :
          /\ ProfileBirthDateIs(RagCandidates[i].raw, RagRequest.birth_date)
          /\ \A kw \in SuppliedKeywords : FoundIgnoringCase(RagCandidates[i].raw, kw)
          /\ RagCandidates[i].composite_score - PreBonus(RagCandidates[i])
               = (5 * ScoreUnit) \div 10
          /\ AddressPart(RagCandidates[j]) = 0


\* the candidates the lexical stage hands over, in its order
LexicalCandidates ==
    search_entities_fuzzy(Strip(RagRequest.name),
                          IF RagRequest.top_k * 3 > MinFuzzyLimit THEN RagRequest.top_k * 3
                          ELSE MinFuzzyLimit,
                          rag_resp.env.graph_up)
LexicalPosition(node_id) ==
    CHOOSE i \in DOMAIN LexicalCandidates : LexicalCandidates[i].id = node_id
\* the entity whose node has this id
EntityOf(node_id) == CHOOSE n \in DOMAIN nodes : NodeId(n) = node_id
\* the cosine of the query's and the candidate's embedding
CosineOf(node_id) ==
    Cosine(QueryVector, CandidateVector(rag_resp.env.embed, LexicalPosition(node_id)))
ExpectedDobBonus(raw) ==
    IF ProfileBirthDateIs(raw, RagRequest.birth_date) THEN DobExactBonus
    ELSE IF IdBlobContains(raw, RagRequest.birth_date) THEN DobPartialBonus
    ELSE 0
ExpectedAddressBonus(raw) ==
    CappedBonus(Cardinality({kw \in {Lower(Strip(k)) : k \in SuppliedKeywords} \ {<<>>} :
                               FoundIgnoringCase(raw, kw)}))
\* the composite score of a lexical candidate, by the stated formula
ExpectedComposite(c) ==
    LET fuzzy == (Tier(EntityOf(c.id), Strip(RagRequest.name)) * ScoreUnit) \div 4
        semantic == (CosineOf(c.id) + ScoreUnit) \div 2
    IN  (IF SemanticUsed THEN (6 * semantic) \div 10 + (4 * fuzzy) \div 10 ELSE fuzzy)
          + ExpectedDobBonus(c) + ExpectedAddressBonus(c)

\* C18: for every candidate fuzzy_score is the lexical tier divided by 4 and,
\* when semantic scoring was used, semantic_score is (cosine + 1) / 2 and
\* composite_score = 0.6 x semantic_score + 0.4 x fuzzy_score + dob_bonus +
\* address_bonus; otherwise composite_score = fuzzy_score + dob_bonus +
\* address_bonus; one formula serves all candidates of a request.
C18_CompositeScore ==
    RagResp =>
        \A i \in DOMAIN RagCandidates :
            LET r == RagCandidates[i]
                bonuses == ExpectedDobBonus(r.raw) + ExpectedAddressBonus(r.raw)
            IN  /\ 4 * r.fuzzy_score = Tier(EntityOf(r.node_id), Strip(RagRequest.name)) * ScoreUnit
                /\ SemanticUsed =>
                      /\ 2 * r.semantic_score = CosineOf(r.node_id) + ScoreUnit
                      /\ 10 * (r.composite_score - bonuses)
                           = 6 * r.semantic_score + 4 * r.fuzzy_score
                /\ ~SemanticUsed =>
                      /\ r.semantic_score = 0
                      /\ r.composite_score = r.fuzzy_score + bonuses

\* semantic scoring used, candidates of different tiers and cosines, one of
\* them with both bonuses
C18_Witness ==
    /\ RagResp /\ SemanticUsed
    /\ \E i, j \in DOMAIN RagCandidates :
          /\ RagCandidates[i].semantic_score # RagCandidates[j].semantic_score
          /\ RagCandidates[i].fuzzy_score # RagCandidates[j].fuzzy_score
          /\ RagCandidates[i].semantic_score > 0
          /\ ExpectedDobBonus(RagCandidates[i].raw) > 0
          /\ ExpectedAddressBonus(RagCandidates[i].raw) > 0
          /\ CosineOf(RagCandidates[j].node_id) < 0


\* composite / 1.6 clamped to [0, 1]
ClampedNormalized(composite) ==
    IF composite < 0 THEN 0
    ELSE IF composite * 10 > MaxPossible * ScoreUnit THEN ScoreUnit
    ELSE (composite * 10) \div MaxPossible
\* a comes no later than b: higher normalized score, ties by composite score
NoLowerRanked(na, ca, nb, cb) == na > nb \/ (na = nb /\ ca >= cb)
ReturnedIds == {RagCandidates[i].node_id : i \in DOMAIN RagCandidates}

\* the ranking of one answer: normalized scores, order, size, and nothing
\* left out that ranks above something returned
RankedAndTruncated ==
    /\ \A i \in DOMAIN RagCandidates :
          RagCandidates[i].normalized_score
            = ClampedNormalized(RagCandidates[i].composite_score)
    /\ \A i, j \in DOMAIN RagCandidates :
          i < j => NoLowerRanked(RagCandidates[i].normalized_score,
                                 RagCandidates[i].composite_score,
                                 RagCandidates[j].normalized_score,
                                 RagCandidates[j].composite_score)
    /\ Len(RagCandidates) <= RagRequest.top_k
    /\ Cardinality(ReturnedIds) = Len(RagCandidates)
    /\ \/ Len(RagCandidates) = RagRequest.top_k
       \/ Len(RagCandidates) = Len(LexicalCandidates)
    /\ \A k \in DOMAIN LexicalCandidates :
          LexicalCandidates[k].id \notin ReturnedIds =>
             \A i \in DOMAIN RagCandidates :
                NoLowerRanked(RagCandidates[i].normalized_score,
                              RagCandidates[i].composite_score,
                              ClampedNormalized(ExpectedComposite(LexicalCandidates[k])),
                              ExpectedComposite(LexicalCandidates[k]))

OneHopLayers(node_id) ==
    LET n == EntityOf(node_id)
    IN  PyDict([root |-> [id |-> node_id, name |-> nodes[n].name, type |-> nodes[n].type],
                layers |-> {[nodes |-> <<[id |-> node_id, name |-> nodes[n].name,
                                          type |-> nodes[n].type],
                                         [id |-> NodeId(e.to), name |-> nodes[e.to].name,
                                          type |-> nodes[e.to].type]>>,
                             rels |-> <<[from |-> node_id, to |-> NodeId(e.to),
                                         stake |-> e.stake]>>] :
                              e \in {x \in owns : x.from = n}}])
TopCount == IF Len(RagCandidates) < 2 THEN Len(RagCandidates) ELSE 2

\* C20: whenever the candidate list is non-empty, subgraphs has an entry for
\* exactly the top min(2, number of returned candidates) candidates and for
\* no other node; when fetching the subgraph of one of them fails, all the
\* candidates are still returned, that candidate's subgraph is null and the
\* other one's is intact.
C20_SubgraphsOfTopTwo ==
    (RagResp /\ RagCandidates # <<>>) =>
        /\ DOMAIN rag_resp.result.subgraphs
             = {RagCandidates[i].node_id : i \in 1 .. TopCount}
        /\ \A i \in 1 .. TopCount :
              rag_resp.result.subgraphs[RagCandidates[i].node_id]
                = (IF i \in rag_resp.env.layers_down THEN PyNone
                   ELSE OneHopLayers(RagCandidates[i].node_id))
        /\ RagCandidates
             = ResolveGraphrag(RagRequest, [rag_resp.env EXCEPT !.layers_down = {}]).candidates

\* three candidates returned; fetching the first one's subgraph failed, the
\* second one's subgraph has a layer
C20_Witness ==
    /\ RagResp
    /\ Len(RagCandidates) >= 3
    /\ rag_resp.env.layers_down = {1}
    /\ rag_resp.result.subgraphs[RagCandidates[1].node_id] = PyNone
    /\ rag_resp.result.subgraphs[RagCandidates[2].node_id] # PyNone
    /\ rag_resp.result.subgraphs[RagCandidates[2].node_id].d.layers # {}


(***************************************************************************)
(* Further properties of the penetration engine.                           *)
(***************************************************************************)
PenetrationAnswered == resp # NoResp /\ resp.status = 200
PenetrationItems == resp.body.items

\* C26: whatever the graph, ownership cycles through the root and a
\* self-loop on the root included, no item returned by either penetration
\* call has the root's id.
C26_RootExcluded ==
    PenetrationAnswered =>
        \A i \in DOMAIN PenetrationItems : PenetrationItems[i].id # resp.entity_id

\* every stake is a percentage in [0, 100] and the stakes entering each node
\* sum to at most 100
RECURSIVE SumStakes(_)
SumStakes(E) ==
    IF E = {} THEN 0
    ELSE LET e == CHOOSE x \in E : TRUE IN e.stake + SumStakes(E \ {e})
StakesWellFormed ==
    /\ \A e \in owns : e.stake # NULL /\ e.stake >= 0 /\ e.stake <= 100
    /\ \A n \in entities : SumStakes({e \in owns : e.to = n}) <= 100

\* the root owns 2 and 3 outright and is itself owned outright by 2: every
\* stake is 100 and every node has one owner
RootCycleGraph ==
    [entities |-> {1, 2, 3},
     owns |-> {Edge(1, 2, 100), Edge(2, 1, 100), Edge(1, 3, 100)}]

InitRootCycle ==
    /\ entities = RootCycleGraph.entities /\ owns = RootCycleGraph.owns
    /\ resp = NoResp
    /\ match = NoMatch
    /\ transactions = <<>>
    /\ kb_files = ShippedKB
    /\ KB_CACHE = EmptyDict
    /\ risk_resp = NoResp
    /\ risk_prev = NoResp
    /\ nodes = NoNodes
    /\ rag_resp = NoResp
    /\ NoAnalysis
    /\ NoThreads

SpecRootCycle == InitRootCycle /\ [][Next]_vars

\* C27: every penetration reported by get_equity_penetration is a percentage
\* in 0..100, on every graph, cyclic or not, whose stakes are in [0, 100] and
\* enter each node with a sum of at most 100.
C27_PenetrationIsPercentage ==
    (PenetrationAnswered /\ ~resp.include_paths /\ StakesWellFormed) =>
        \A i \in DOMAIN PenetrationItems :
            /\ RatLeq(Zero, PenetrationItems[i].penetration)
            /\ RatLeq(PenetrationItems[i].penetration, Hundred)

\* the paths the query discovers from the root to the node
DiscoveredPaths(n) == {p \in MatchOwnsPaths(resp.entity_id, resp.depth) : EndNode(p) = n}

\* C28: in get_equity_penetration_with_paths every listed path of an item
\* starts at the root and ends at the item's node, following ownership edges
\* of the graph and none of them twice; when max_paths is at least the
\* number of discovered paths to the item, the path_penetration values of its
\* listed paths sum to the item's penetration.
C28_ListedPaths ==
    (PenetrationAnswered /\ resp.include_paths) =>
        \A i \in DOMAIN PenetrationItems :
            LET it == PenetrationItems[i]
            IN  /\ \A j \in DOMAIN it.paths :
                      LET p == it.paths[j]
                      IN  /\ Len(p.rels) >= 1 /\ Len(p.nodes) = Len(p.rels) + 1
                          /\ p.nodes[1] = resp.entity_id
                          /\ p.nodes[Len(p.nodes)] = it.id
                          /\ \A k \in DOMAIN p.rels :
                                /\ p.rels[k] \in owns
                                /\ p.rels[k].from = p.nodes[k]
                                /\ p.rels[k].to = p.nodes[k + 1]
                          /\ \A k, l \in DOMAIN p.rels : p.rels[k] = p.rels[l] => k = l
                /\ resp.max_paths >= Cardinality(DiscoveredPaths(it.id))
                     => SumPathPen(it.paths, 1) = it.penetration

\* an item reached over two paths, one of two edges, both listed
C28_Witness ==
    /\ PenetrationAnswered /\ resp.include_paths
    /\ \E i \in DOMAIN PenetrationItems :
          /\ Cardinality(DiscoveredPaths(PenetrationItems[i].id)) = 2
          /\ resp.max_paths >= 2
          /\ Len(PenetrationItems[i].paths) = 2
          /\ \E j \in 1 .. 2 : Len(PenetrationItems[i].paths[j].rels) = 2

(***************************************************************************)
(* The rule knowledge base seen over time: the documents on disk change    *)
(* while the service runs, and GET /kb/rules reads the cache.              *)
(***************************************************************************)
\* GET /kb/rules: kb = load_kb(), answered with its three documents
get_kb_rules ==
    /\ risk_resp = NoResp
    /\ KB_CACHE' = LoadKb(KB_CACHE, kb_files, FALSE)
    /\ risk_resp' = [endpoint |-> "kb_rules",
                     result |-> [rules |-> Get(KB_CACHE', "rules", EmptyDict),
                                 lists |-> Get(KB_CACHE', "lists", EmptyDict),
                                 taxonomy |-> Get(KB_CACHE', "taxonomy", EmptyDict)]]
    /\ UNCHANGED <<agg_vars, thread_vars, rag_vars, graph_vars, resp, match, kb_files, risk_prev>>

\* somebody edits, removes or damages the documents under kb/
write_kb_files(files) ==
    /\ risk_resp = NoResp
    /\ files # kb_files
    /\ kb_files' = files
    /\ UNCHANGED <<agg_vars, thread_vars, rag_vars, graph_vars, resp, match, KB_CACHE, risk_resp, risk_prev>>

NextKb ==
    \/ \E force \in BOOLEAN : load_kb(force)
    \/ get_kb_rules
    \/ \E payload \in RepeatPayloads, graph_up \in BOOLEAN :
          evaluate_kb_risk(payload, graph_up)
    \/ \E files \in KBFiles : write_kb_files(files)
    \/ return_risk

SpecKb == InitRisk /\ [][NextKb]_vars

\* what reading the three documents now gives
ReadDocuments == [rules |-> Load(kb_files.rules), lists |-> Load(kb_files.lists),
                  taxonomy |-> Load(kb_files.taxonomy)]
KbLoaded == KB_CACHE # EmptyDict
KbRulesResp == risk_resp.endpoint = "kb_rules"
\* a step in which a call of the service is answered
Answers == risk_resp = NoResp /\ risk_resp' # NoResp
\* the answer of this step was computed from the knowledge base kb
AnsweredFrom(kb) ==
    IF risk_resp'.endpoint = "kb_rules"
    THEN risk_resp'.result = [rules |-> kb.rules, lists |-> kb.lists,
                              taxonomy |-> kb.taxonomy]
    ELSE risk_resp'.result =
            EvaluateKbRisk(kb, risk_resp'.payload, ~risk_resp'.graph_raised)
CachedSnapshotStep ==
    \* first use reads the three documents
    /\ (~KbLoaded /\ KB_CACHE' # KB_CACHE) => KB_CACHE' = ReadDocuments
    /\ (~KbLoaded /\ Answers) => KB_CACHE' = ReadDocuments /\ AnsweredFrom(ReadDocuments)
    \* afterwards every answer comes from the snapshot, which stays
    /\ (KbLoaded /\ Answers) => KB_CACHE' = KB_CACHE /\ AnsweredFrom(KB_CACHE)
    \* a change of the documents does not reach the snapshot
    /\ kb_files' # kb_files => KB_CACHE' = KB_CACHE
    \* the snapshot is replaced only by a load that answers nothing, and by
    \* what the documents hold then
    /\ (KbLoaded /\ KB_CACHE' # KB_CACHE) =>
          /\ risk_resp = NoResp /\ risk_resp' = NoResp
          /\ KB_CACHE' = ReadDocuments

\* C21: the knowledge base is read on first use; afterwards load_kb()
\* without force and evaluate_kb_risk answer from the cached snapshot and
\* leave it alone even after the documents changed; only load_kb(force=True)
\* replaces it, by a fresh read of all three documents.
C21_CachedSnapshot == [][CachedSnapshotStep]_vars

\* an answer computed from a snapshot the documents no longer agree with,
\* in each of the three documents
C21_Witness ==
    /\ risk_resp # NoResp
    /\ KbLoaded
    /\ \A k \in {"rules", "lists", "taxonomy"} : KB_CACHE[k] # ReadDocuments[k]
    /\ \/ /\ KbRulesResp /\ risk_resp.result.rules = KB_CACHE.rules
          /\ risk_resp.result.rules # EmptyDict
       \/ /\ RiskResp
          /\ risk_resp.result = EvaluateKbRisk(KB_CACHE, risk_resp.payload,
                                               ~risk_resp.graph_raised)
          /\ risk_resp.result # EvaluateKbRisk(ReadDocuments, risk_resp.payload,
                                               ~risk_resp.graph_raised)

DocumentNames == {"rules", "lists", "taxonomy"}
NoRulesMatched == <<"No rules matched">>
EmptyRuleSet(kb) ==
    /\ Get(kb.rules, "deterministic", <<>>) = <<>>
    /\ Get(kb.rules, "weighted", <<>>) = <<>>
ThreeDocuments ==
    /\ KbLoaded => /\ DOMAIN KB_CACHE = DocumentNames
                   /\ \A k \in DocumentNames :
                         kb_files[k].state = "missing" => KB_CACHE[k] = EmptyDict
    /\ RiskResp =>
          /\ DOMAIN KB_CACHE = DocumentNames
          /\ "error" \notin DOMAIN risk_resp.result
          /\ "score" \in DOMAIN risk_resp.result
          /\ EmptyRuleSet(KB_CACHE) =>
                /\ risk_resp.result.score = 0
                /\ risk_resp.result.labels = <<>>
                /\ risk_resp.result.explanation = NoRulesMatched

\* C22: the loaded knowledge base always has the three documents rules,
\* lists and taxonomy; a missing document is loaded as an empty document;
\* evaluate_kb_risk over such a knowledge base completes, and with an empty
\* rule set returns score 0, no labels and "No rules matched".
C22_ThreeDocuments == ThreeDocuments

C22_Witness ==
    /\ RiskResp
    /\ kb_files.rules.state = "missing"
    /\ kb_files.lists.state = "missing"
    /\ kb_files.taxonomy.state = "missing"
    /\ KB_CACHE = [rules |-> EmptyDict, lists |-> EmptyDict, taxonomy |-> EmptyDict]
    /\ risk_resp.transfers # <<>>
    /\ Get(risk_resp.payload, "beneficiary_name", <<>>) # <<>>
    /\ risk_resp.result.explanation = NoRulesMatched

\* C23: when the graph query raises while evaluate_kb_risk fetches the
\* entity or derives its transfers, the call ends in an error.
C23_GraphFailureIsFatal ==
    (RiskResp /\ risk_resp.graph_raised) => "error" \in DOMAIN risk_resp.result

WellFormedWeighted(r) ==
    /\ IsRecordEntry(r)
    /\ Get(r, "threshold", DefaultThreshold) # NULL
    /\ \A f \in DOMAIN Get(r, "weights", EmptyDict) : r.weights[f] # NULL
WellFormedIds(w_rules) ==
    LET good == SelectSeq(w_rules, WellFormedWeighted)
    IN  [i \in DOMAIN good |-> good[i].id]
\* C24: an invalid entry of the rule lists is skipped: the evaluation ends
\* without a failure and reports every remaining weighted rule.
C24_MalformedSkipped ==
    RiskResp =>
        /\ "error" \notin DOMAIN risk_resp.result
        /\ [i \in DOMAIN risk_resp.result.weighted_details |->
               risk_resp.result.weighted_details[i].id]
             = WellFormedIds(Get(KB_CACHE.rules, "weighted", <<>>))

(***************************************************************************)
(* The entity-level aggregator analyze_entity_risks.  The records are the  *)
(* dict objects the fetchers hand back; _flag writes risk_flags and        *)
(* risk_score into them.  Scores are in tenths of a point.  A field that   *)
(* is None or absent is left out of the record.                            *)
(***************************************************************************)
MaxAnalyses == 2
ACCOUNT_HIGH_BALANCE == 1000000
TRANSACTION_LARGE_AMOUNT == 500000
GUARANTEE_LARGE_AMOUNT == 1000000
SUPPLY_HIGH_FREQUENCY == 50
NEGATIVE_NEWS_KEYWORDS ==
    <<<<"f", "r", "a", "u", "d">>,
      <<"s", "c", "a", "n", "d", "a", "l">>,
      <<"i", "n", "v", "e", "s", "t", "i", "g", "a", "t", "i", "o", "n">>,
      <<"l", "a", "w", "s", "u", "i", "t">>,
      <<"b", "a", "n", "k", "r", "u", "p", "t", "c", "y">>,
      <<"p", "r", "o", "b", "e">>,
      <<"b", "r", "e", "a", "c", "h">>,
      <<"b", "r", "i", "b", "e", "r", "y">>>>
HighRiskChannels == {<<"c", "a", "s", "h">>, <<"c", "r", "y", "p", "t", "o">>}
LargeWeight == 20
MissingBankWeight == 5
ChannelWeight == 15
MissingTimeWeight == 5
SelfWeight == 20
FrequencyWeight == 15
KeywordWeight == 20
MissingSummaryWeight == 3

\* x is not None and x > limit
AtLeast_strict(x, limit) == x # NULL /\ x > limit
\* x is not None and x >= limit
AtLeast(x, limit) == x # NULL /\ x >= limit

\* _flag(item, reason, weight, flags_acc), applied when cond holds; st is
\* the record object together with the flags list of the current call
FlagIf(st, cond, reason, weight) ==
    IF cond
    THEN [item |-> ("risk_flags" :> Append(Get(st.item, "risk_flags", <<>>), reason))
                     @@ ("risk_score" :> Get(st.item, "risk_score", 0) + weight)
                     @@ st.item,
          flags |-> Append(st.flags, reason)]
    ELSE st
Unflagged(item) == [item |-> item, flags |-> <<>>]

AssessAccount(acc) ==
    LET s1 == FlagIf(Unflagged(acc),
                     AtLeast(Get(acc, "balance", NULL), ACCOUNT_HIGH_BALANCE),
                     <<"High balance >= 1000000.0">>, LargeWeight)
    IN  FlagIf(s1, Get(acc, "bank_name", "") = "", <<"Missing bank name">>,
               MissingBankWeight)

AssessTransaction(tx) ==
    LET channel == Get(tx, "channel", <<>>)
        s1 == FlagIf(Unflagged(tx),
                     AtLeast(Get(tx, "amount", NULL), TRANSACTION_LARGE_AMOUNT),
                     <<"Large amount >= 500000.0">>, LargeWeight)
        s2 == FlagIf(s1, Lower(channel) \in HighRiskChannels,
                     <<"High-risk channel: ">> \o channel, ChannelWeight)
        s3 == FlagIf(s2, Get(tx, "time", "") = "", <<"Missing timestamp">>,
                     MissingTimeWeight)
    IN  FlagIf(s3, Get(tx, "from_id", NULL) = Get(tx, "to_id", NULL),
               <<"Self-loop transaction">>, SelfWeight)

AssessGuarantee(g) ==
    LET s1 == FlagIf(Unflagged(g),
                     AtLeast(Get(g, "amount", NULL), GUARANTEE_LARGE_AMOUNT),
                     <<"Large guarantee >= 1000000.0">>, LargeWeight)
    IN  FlagIf(s1, Get(g, "guarantor_id", NULL) = Get(g, "guaranteed_id", NULL),
               <<"Self guarantee">>, SelfWeight)

AssessSupply(rel) ==
    LET s1 == FlagIf(Unflagged(rel),
                     AtLeast(Get(rel, "frequency", NULL), SUPPLY_HIGH_FREQUENCY),
                     <<"High supply frequency >= 50">>, FrequencyWeight)
    IN  FlagIf(s1, Get(rel, "supplier_id", NULL) = Get(rel, "customer_id", NULL),
               <<"Self supplier/customer">>, SelfWeight)

\* " ".join(filter(None, [title, summary]))
NewsText(item) ==
    LET title == Get(item, "title", <<>>)
        summary == Get(item, "summary", <<>>)
    IN  IF title # <<>> /\ summary # <<>> THEN title \o <<" ">> \o summary
        ELSE title \o summary
\* KEYWORD_PATTERN.search(text), the pattern compiled with re.IGNORECASE
KeywordSearch(text) ==
    \E i \in DOMAIN NEGATIVE_NEWS_KEYWORDS :
        Contains(Lower(text), NEGATIVE_NEWS_KEYWORDS[i])
AssessNewsItem(item) ==
    LET s1 == FlagIf(Unflagged(item), KeywordSearch(NewsText(item)),
                     <<"Negative news keyword">>, KeywordWeight)
    IN  FlagIf(s1, Get(item, "summary", <<>>) = <<>>, <<"Missing summary">>,
               MissingSummaryWeight)
\* item.get("url") or item.get("title")
NewsKey(item) ==
    IF Get(item, "url", <<>>) # <<>> THEN item.url ELSE Get(item, "title", <<>>)

Section(items, risky) ==
    [items |-> items, risky |-> risky, count |-> Len(items), risky_count |-> Len(risky)]
ItemsOf(done) == [i \in DOMAIN done |-> done[i].item]
\* the loop of _assess_accounts, _assess_transactions, _assess_guarantees
\* and _assess_supply_chain: risky takes the records flagged in this call
AssessOne(name, item) ==
    CASE name = "accounts" -> AssessAccount(item)
      [] name = "transactions" -> AssessTransaction(item)
      [] name = "guarantees" -> AssessGuarantee(item)
      [] name = "supply_chain" -> AssessSupply(item)
AssessList(items, name) ==
    LET done == [i \in DOMAIN items |-> AssessOne(name, items[i])]
    IN  Section(ItemsOf(done),
                ItemsOf(SelectSeq(done, LAMBDA d : d.flags # <<>>)))

\* the loop of _assess_news over stored + external: an item without a key
\* or with a key already seen is passed over
RECURSIVE AssessNewsFrom(_, _, _)
AssessNewsFrom(rest, seen, done) ==
    IF rest = <<>> THEN done
    ELSE LET item == Head(rest)
             key == NewsKey(item)
         IN  IF key = <<>> \/ key \in seen
             THEN AssessNewsFrom(Tail(rest), seen,
                                 Append(done, [item |-> item, kept |-> FALSE]))
             ELSE AssessNewsFrom(Tail(rest), seen \cup {key},
                                 Append(done, [item |-> AssessNewsItem(item).item,
                                               kept |-> TRUE]))
\* risky takes the combined items that carry risk_flags
AssessNews(stored, external) ==
    LET done == AssessNewsFrom(stored \o external, {}, <<>>)
        combined == ItemsOf(SelectSeq(done, LAMBDA d : d.kept))
    IN  [section |-> Section(combined,
                             SelectSeq(combined,
                                       LAMBDA i : Get(i, "risk_flags", <<>>) # <<>>)),
         stored |-> ItemsOf(SubSeq(done, 1, Len(stored))),
         external |-> ItemsOf(SubSeq(done, Len(stored) + 1, Len(done)))]

RiskScores(risky) == [i \in DOMAIN risky |-> Get(risky[i], "risk_score", 0)]
SectionNames == <<"accounts", "transactions", "guarantees", "supply_chain", "news">>

\* get_entity_fn(entity_id): the entity, or nothing
get_entity(entity_id) ==
    IF entity_id \in entities THEN [id |-> entity_id] ELSE EmptyDict

\* analyze_entity_risks(entity_id) over the record objects recs: its result
\* and the record objects as the call leaves them
AnalyzeEntityRisks(entity_id, recs) ==
    IF get_entity(entity_id) = EmptyDict THEN [result |-> EmptyDict, records |-> recs]
    ELSE
    LET acc_section == AssessList(recs.accounts, "accounts")
        tx_section == AssessList(recs.transactions, "transactions")
        g_section == AssessList(recs.guarantees, "guarantees")
        sc_section == AssessList(recs.supply_chain, "supply_chain")
        news == AssessNews(recs.stored_news, recs.external_news)
        sections == <<acc_section, tx_section, g_section, sc_section, news.section>>
    IN  [result |->
           [entity |-> get_entity(entity_id),
            accounts |-> acc_section,
            transactions |-> tx_section,
            guarantees |-> g_section,
            supply_chain |-> sc_section,
            news |-> news.section,
            summary |->
               [total_items |-> SeqSum([i \in 1 .. 5 |-> sections[i].count]),
                total_risky_items |-> SeqSum([i \in 1 .. 5 |-> sections[i].risky_count]),
                overall_risk_score |->
                   SeqSum([i \in 1 .. 5 |-> SeqSum(RiskScores(sections[i].risky))])],
            thresholds |->
               [ACCOUNT_HIGH_BALANCE |-> ACCOUNT_HIGH_BALANCE,
                TRANSACTION_LARGE_AMOUNT |-> TRANSACTION_LARGE_AMOUNT,
                GUARANTEE_LARGE_AMOUNT |-> GUARANTEE_LARGE_AMOUNT,
                SUPPLY_HIGH_FREQUENCY |-> SUPPLY_HIGH_FREQUENCY,
                NEGATIVE_NEWS_KEYWORDS |-> NEGATIVE_NEWS_KEYWORDS]],
         records |->
           [accounts |-> acc_section.items,
            transactions |-> tx_section.items,
            guarantees |-> g_section.items,
            supply_chain |-> sc_section.items,
            stored_news |-> news.stored,
            external_news |-> news.external]]

\* the records the fetchers are given to hand back
AccountLists ==
    {<<[account_number |-> "A-1", bank_name |-> "BankZ", balance |-> 2000000],
       [account_number |-> "A-2", balance |-> 50000]>>,
     <<[account_number |-> "A-3", bank_name |-> "BankZ", balance |-> 999999],
       [account_number |-> "A-4", bank_name |-> "BankZ",
        balance |-> ACCOUNT_HIGH_BALANCE]>>,
     <<[account_number |-> "A-5"]>>}
TransactionLists ==
    {<<[from_id |-> 1, to_id |-> 1, amount |-> 10000, channel |-> <<"C", "a", "s", "h">>],
       [from_id |-> 1, to_id |-> 2, amount |-> 800000, channel |-> <<"w", "i", "r", "e">>,
        time |-> "2024-01-01"]>>,
     <<[from_id |-> 1, to_id |-> 2, amount |-> 499999, channel |-> <<"w", "i", "r", "e">>,
        time |-> "2024-01-02"],
       [from_id |-> 2, to_id |-> 1, amount |-> TRANSACTION_LARGE_AMOUNT,
        channel |-> <<"w", "i", "r", "e">>, time |-> "2024-01-03"]>>,
     <<[from_id |-> 2, to_id |-> 1, amount |-> 5,
        channel |-> <<"C", "R", "Y", "P", "T", "O">>, time |-> "2024-01-04"],
       [from_id |-> 1, to_id |-> 2, time |-> "2024-01-05"],
       [channel |-> <<"w", "i", "r", "e">>, time |-> "2024-01-06"]>>}
GuaranteeLists ==
    {<<[guarantor_id |-> 1, guaranteed_id |-> 2, amount |-> 2500000],
       [guarantor_id |-> 1, guaranteed_id |-> 1, amount |-> 100000]>>,
     <<[guarantor_id |-> 2, guaranteed_id |-> 1, amount |-> GUARANTEE_LARGE_AMOUNT - 1],
       [guarantor_id |-> 2, guaranteed_id |-> 1, amount |-> GUARANTEE_LARGE_AMOUNT]>>}
SupplyLists ==
    {<<[supplier_id |-> 1, customer_id |-> 2, frequency |-> 60],
       [supplier_id |-> 1, customer_id |-> 1, frequency |-> 5]>>,
     <<[supplier_id |-> 2, customer_id |-> 1, frequency |-> SUPPLY_HIGH_FREQUENCY],
       [supplier_id |-> 2, customer_id |-> 1, frequency |-> SUPPLY_HIGH_FREQUENCY - 1],
       [supplier_id |-> 2, customer_id |-> 1]>>}
NewsLists ==
    {[stored |-> <<[title |-> <<"I", "n", "v", "e", "s", "t", "i", "g", "a", "t", "i", "o", "n">>, summary |-> <<"P", "r", "o", "b", "e", " ", "o", "n", "g", "o", "i", "n", "g">>],
                   [title |-> <<"r", "e", "s", "u", "l", "t", "s">>, summary |-> <<"o", "k">>]>>,
      external |-> <<[title |-> <<"f", "a", "c", "e", "s", " ", "l", "a", "w", "s", "u", "i", "t">>, summary |-> <<"o", "k">>]>>],
     [stored |-> <<[title |-> <<"r", "e", "s", "u", "l", "t", "s">>], [summary |-> <<"P", "r", "o", "b", "e", " ", "o", "n", "g", "o", "i", "n", "g">>]>>,
      external |-> <<[title |-> <<"r", "e", "s", "u", "l", "t", "s">>, summary |-> <<"F", "R", "A", "U", "D">>],
                     [url |-> <<"u", "/", "1">>, title |-> <<"r", "e", "s", "u", "l", "t", "s">>, summary |-> <<"b", "r", "e", "a", "c", "h">>]>>],
     [stored |-> <<>>,
      external |-> <<[title |-> <<"r", "e", "s", "u", "l", "t", "s">>, summary |-> <<"o", "k">>]>>]}
Datasets ==
    {[accounts |-> a, transactions |-> t, guarantees |-> g, supply_chain |-> s,
      stored_news |-> n.stored, external_news |-> n.external] :
        a \in AccountLists, t \in TransactionLists, g \in GuaranteeLists,
        s \in SupplyLists, n \in NewsLists}
AnalysisIds == {1, 4}

InitAgg ==
    /\ entities = ExampleGraph.entities /\ owns = ExampleGraph.owns
    /\ transactions = ExampleTransactions
    /\ kb_files = ShippedKB
    /\ KB_CACHE = EmptyDict
    /\ risk_resp = NoResp
    /\ risk_prev = NoResp
    /\ nodes = NoNodes
    /\ rag_resp = NoResp
    /\ resp = NoResp
    /\ match = NoMatch
    /\ records \in Datasets
    /\ analyses = 0
    /\ agg_resp = NoResp
    /\ NoThreads

\* the fetchers are given new record objects to hand back
fetch_records(data) ==
    /\ agg_resp = NoResp
    /\ data # records
    /\ records' = data
    /\ analyses' = 0
    /\ UNCHANGED <<agg_resp, thread_vars, rag_vars, graph_vars, resp, match, risk_vars>>

\* one call of analyze_entity_risks; the fetchers hand back the objects
\* in records
analyze_entity_risks(entity_id) ==
    /\ agg_resp = NoResp
    /\ analyses < MaxAnalyses
    /\ LET out == AnalyzeEntityRisks(entity_id, records)
       IN  /\ agg_resp' = [endpoint |-> "analyze", entity_id |-> entity_id,
                           result |-> out.result]
           /\ records' = out.records
           /\ analyses' = IF out.result = EmptyDict THEN analyses ELSE analyses + 1
    /\ UNCHANGED <<thread_vars, rag_vars, graph_vars, resp, match, risk_vars>>

return_analysis ==
    /\ agg_resp # NoResp
    /\ agg_resp' = NoResp
    /\ UNCHANGED <<records, analyses, thread_vars, rag_vars, graph_vars, resp, match,
                   risk_vars>>

NextAgg ==
    \/ \E data \in Datasets : fetch_records(data)
    \/ \E entity_id \in AnalysisIds : analyze_entity_risks(entity_id)
    \/ return_analysis

SpecAgg == InitAgg /\ [][NextAgg]_vars

(***************************************************************************)
(* Properties of the aggregator.                                           *)
(***************************************************************************)
AggResp == agg_resp.endpoint = "analyze"
KnownEntity == agg_resp.entity_id \in entities
Present(r, field) == Get(r, field, NULL) # NULL
\* the weights of the threshold rules a record violates, rule by rule
ViolatedWeights(name, r) ==
    CASE name = "accounts" ->
           <<IF Present(r, "balance") /\ r.balance >= 1000000 THEN 20 ELSE 0,
             IF Get(r, "bank_name", "") = "" THEN 5 ELSE 0>>
      [] name = "transactions" ->
           <<IF Present(r, "amount") /\ r.amount >= 500000 THEN 20 ELSE 0,
             IF Lower(Get(r, "channel", <<>>))
                  \in {<<"c", "a", "s", "h">>, <<"c", "r", "y", "p", "t", "o">>}
             THEN 15 ELSE 0,
             IF Get(r, "time", "") = "" THEN 5 ELSE 0,
             IF Get(r, "from_id", NULL) = Get(r, "to_id", NULL) THEN 20 ELSE 0>>
      [] name = "guarantees" ->
           <<IF Present(r, "amount") /\ r.amount >= 1000000 THEN 20 ELSE 0,
             IF Get(r, "guarantor_id", NULL) = Get(r, "guaranteed_id", NULL)
             THEN 20 ELSE 0>>
      [] name = "supply_chain" ->
           <<IF Present(r, "frequency") /\ r.frequency >= 50 THEN 15 ELSE 0,
             IF Get(r, "supplier_id", NULL) = Get(r, "customer_id", NULL)
             THEN 20 ELSE 0>>
      [] name = "news" ->
           <<IF \E i \in DOMAIN NEGATIVE_NEWS_KEYWORDS :
                   \/ Contains(Lower(Get(r, "title", <<>>)), NEGATIVE_NEWS_KEYWORDS[i])
                   \/ Contains(Lower(Get(r, "summary", <<>>)), NEGATIVE_NEWS_KEYWORDS[i])
             THEN 20 ELSE 0,
             IF Get(r, "summary", <<>>) = <<>> THEN 3 ELSE 0>>
Violates(name, r) == SeqSum(ViolatedWeights(name, r)) > 0
SectionOf(name) == agg_resp.result[name]
SectionRight(name) ==
    LET sec == SectionOf(name)
    IN  /\ sec.risky = SelectSeq(sec.items, LAMBDA r : Violates(name, r))
        /\ sec.risky_count = Len(sec.risky)
        /\ sec.count = Len(sec.items)
        /\ sec.risky_count <= sec.count
RiskyScoreSum ==
    SeqSum([i \in DOMAIN SectionNames |->
              SeqSum(RiskScores(SectionOf(SectionNames[i]).risky))])

\* C25: for an unknown entity analyze_entity_risks returns the not-found
\* outcome; otherwise in every section the risky list holds exactly the
\* records a threshold rule flags, risky_count is its size and at most
\* count, and overall_risk_score is the sum of the risk_score of all risky
\* records.
C25_Aggregator ==
    AggResp =>
        IF ~KnownEntity THEN agg_resp.result = EmptyDict
        ELSE /\ \A i \in DOMAIN SectionNames : SectionRight(SectionNames[i])
             /\ agg_resp.result.summary.overall_risk_score = RiskyScoreSum

\* an analysis in which every section has a risky and a clean record
C25_Witness ==
    /\ AggResp /\ KnownEntity
    /\ \A i \in DOMAIN SectionNames :
          LET sec == SectionOf(SectionNames[i])
          IN  0 < sec.risky_count /\ sec.risky_count < sec.count
    /\ agg_resp.result.summary.overall_risk_score > 0

UnknownEntityAnswered == AggResp /\ ~KnownEntity /\ agg_resp.result = EmptyDict

\* C29: however many times the same record objects have been analysed, the
\* risk_score of a record is the sum of the weights of the rules it
\* violates, and the overall score is the sum of these.
C29_ScoreIsSumOfWeights ==
    (AggResp /\ KnownEntity) =>
        /\ \A i \in DOMAIN SectionNames :
              LET sec == SectionOf(SectionNames[i])
              IN  \A k \in DOMAIN sec.items :
                     Get(sec.items[k], "risk_score", 0)
                       = SeqSum(ViolatedWeights(SectionNames[i], sec.items[k]))
        /\ agg_resp.result.summary.overall_risk_score =
              SeqSum([i \in DOMAIN SectionNames |->
                 SeqSum([k \in DOMAIN SectionOf(SectionNames[i]).items |->
                    SeqSum(ViolatedWeights(SectionNames[i],
                                           SectionOf(SectionNames[i]).items[k]))])])

\* the same on the first analysis of new record objects
FirstAnalysisScores == analyses <= 1 => C29_ScoreIsSumOfWeights

(***************************************************************************)
(* load_kb and evaluate_kb_risk run by several threads.  A thread can be   *)
(* suspended between any two reads or writes of the global _KB_CACHE and   *)
(* between the reads of the documents.  Every document read is labelled    *)
(* with the load that read it.                                             *)
(***************************************************************************)
NumThreads == 2
MaxLoads == 3
Threads == 1 .. NumThreads
Idle == [pc |-> "idle"]
LoadSteps == <<"load_rules", "load_lists", "load_taxonomy", "store">>
DocumentAt(pc) == CASE pc = "load_rules" -> "rules"
                    [] pc = "load_lists" -> "lists"
                    [] pc = "load_taxonomy" -> "taxonomy"
NextStep(pc) == CASE pc = "load_rules" -> "load_lists"
                  [] pc = "load_lists" -> "load_taxonomy"
                  [] pc = "load_taxonomy" -> "store"
\* _load(name) by the load with this id
LoadLabelled(id, name) == [load |-> id, json |-> Load(kb_files[name])]

\* what the global holds after a thread has read one document: the global
\* would be filled document by document
CacheAfterRead_inPlace(cache, name, doc) == (name :> doc) @@ cache
\* what the global holds after a thread has read one document: the dict
\* literal is built aside, the global is not touched
CacheAfterRead(cache, name, doc) == cache

InitKbThreads ==
    /\ entities = ExampleGraph.entities /\ owns = ExampleGraph.owns
    /\ transactions = ExampleTransactions
    /\ kb_files = ShippedKB
    /\ KB_CACHE = EmptyDict
    /\ risk_resp = NoResp
    /\ risk_prev = NoResp
    /\ nodes = NoNodes
    /\ rag_resp = NoResp
    /\ resp = NoResp
    /\ match = NoMatch
    /\ NoAnalysis
    /\ kb_threads = [t \in Threads |-> Idle]
    /\ kb_loads = 0

ThreadFrame == <<agg_vars, rag_vars, graph_vars, resp, match, kb_files, risk_resp,
                 risk_prev>>
\* threads that have entered load_kb and may still read the documents
MayStillLoad == {t \in Threads : kb_threads[t].pc = "check"}

\* a thread enters load_kb(force), or evaluate_kb_risk and from it load_kb()
thread_call(t, kind, force) ==
    /\ kb_threads[t].pc = "idle"
    /\ kind = "evaluate_kb_risk" => ~force
    /\ kb_loads + Cardinality(MayStillLoad) < MaxLoads
    /\ kb_threads' = [kb_threads EXCEPT ![t] = [pc |-> "check", kind |-> kind,
                                                 force |-> force]]
    /\ UNCHANGED <<ThreadFrame, KB_CACHE, kb_loads>>

\* if _KB_CACHE and not force
thread_check(t) ==
    /\ kb_threads[t].pc = "check"
    /\ IF KB_CACHE # EmptyDict /\ ~kb_threads[t].force
       THEN /\ kb_threads' = [kb_threads EXCEPT ![t].pc = "return"]
            /\ UNCHANGED kb_loads
       ELSE /\ kb_loads' = kb_loads + 1
            /\ kb_threads' = [kb_threads EXCEPT ![t] =
                                 [pc |-> "load_rules", load |-> kb_loads',
                                  built |-> EmptyDict] @@ @]
    /\ UNCHANGED <<ThreadFrame, KB_CACHE>>

\* one _load(...) of the dict literal
thread_load(t) ==
    /\ kb_threads[t].pc \in {"load_rules", "load_lists", "load_taxonomy"}
    /\ LET name == DocumentAt(kb_threads[t].pc)
           doc == LoadLabelled(kb_threads[t].load, name)
       IN  /\ kb_threads' = [kb_threads EXCEPT
                                ![t].pc = NextStep(@),
                                ![t].built = (name :> doc) @@ @]
           /\ KB_CACHE' = CacheAfterRead(KB_CACHE, name, doc)
    /\ UNCHANGED <<ThreadFrame, kb_loads>>

\* _KB_CACHE = {...}
thread_store(t) ==
    /\ kb_threads[t].pc = "store"
    /\ KB_CACHE' = kb_threads[t].built
    /\ kb_threads' = [kb_threads EXCEPT ![t].pc = "return"]
    /\ UNCHANGED <<ThreadFrame, kb_loads>>

\* return _KB_CACHE: the global is read once more
thread_return(t) ==
    /\ kb_threads[t].pc = "return"
    /\ kb_threads' = [kb_threads EXCEPT ![t] =
                         [pc |-> IF @.kind = "load_kb" THEN "done" ELSE "take",
                          kb |-> KB_CACHE] @@ @]
    /\ UNCHANGED <<ThreadFrame, KB_CACHE, kb_loads>>

\* rules = kb.get("rules", {}); lists = kb.get("lists", {})
thread_take(t) ==
    /\ kb_threads[t].pc = "take"
    /\ kb_threads' = [kb_threads EXCEPT ![t] =
                         [pc |-> "done",
                          rules |-> Get(@.kb, "rules", EmptyDict),
                          lists |-> Get(@.kb, "lists", EmptyDict)] @@ @]
    /\ UNCHANGED <<ThreadFrame, KB_CACHE, kb_loads>>

\* the call is over
thread_exit(t) ==
    /\ kb_threads[t].pc = "done"
    /\ kb_threads' = [kb_threads EXCEPT ![t] = Idle]
    /\ UNCHANGED <<ThreadFrame, KB_CACHE, kb_loads>>

NextKbThreads ==
    \E t \in Threads :
        \/ \E force \in BOOLEAN : thread_call(t, "load_kb", force)
        \/ thread_call(t, "evaluate_kb_risk", FALSE)
        \/ thread_check(t)
        \/ thread_load(t)
        \/ thread_store(t)
        \/ thread_return(t)
        \/ thread_take(t)
        \/ thread_exit(t)

SpecKbThreads == InitKbThreads /\ [][NextKbThreads]_vars

LoadOf(doc) == Get(doc, "load", 0)
\* the cache is empty or holds the three documents of one load
CacheWhole ==
    \/ KB_CACHE = EmptyDict
    \/ /\ DOMAIN KB_CACHE = DocumentNames
       /\ \A k \in DocumentNames : LoadOf(KB_CACHE[k]) = LoadOf(KB_CACHE.rules)
       /\ LoadOf(KB_CACHE.rules) \in 1 .. kb_loads
Evaluated(t) ==
    kb_threads[t].pc = "done" /\ kb_threads[t].kind = "evaluate_kb_risk"
OneSnapshot(t) ==
    /\ LoadOf(kb_threads[t].rules) = LoadOf(kb_threads[t].lists)
    /\ LoadOf(kb_threads[t].rules) \in 1 .. kb_loads

\* C30: under every interleaving of evaluations, forced reloads and
\* first-time loads, an evaluation takes its rules and its lists from the
\* documents of one load, and the cache never holds a partly built
\* knowledge base.
C30_OneSnapshot ==
    /\ CacheWhole
    /\ \A t \in Threads : Evaluated(t) => OneSnapshot(t)

\* an evaluation that finished on the snapshot of an earlier load while
\* another thread was in the middle of reading the documents again
C30_Witness ==
    \E t \in Threads, u \in Threads :
        /\ Evaluated(t)
        /\ kb_threads[u].pc \in {"load_lists", "load_taxonomy", "store"}
        /\ kb_threads[u].load > LoadOf(kb_threads[t].rules)
        /\ LoadOf(KB_CACHE.rules) # kb_threads[u].load

\* two threads inside their first-time loads at once
ConcurrentFirstLoads ==
    /\ KB_CACHE = EmptyDict
    /\ \A t \in Threads : kb_threads[t].pc \in {"load_lists", "load_taxonomy", "store"}
    /\ \A t \in Threads : ~kb_threads[t].force

====
